---------------------------- MODULE Spec2Model ----------------------------
(***************************************************************************)
(* A model of the sarathi agent engine and the components it rests on:     *)
(*   - UsageTracker            (src/src/sarathi/utils/usage.py)            *)
(*   - ToolRegistry.call_tool  (src/src/sarathi/llm/tools.py)              *)
(*   - ResponseParser / ToolCallAggregator                                 *)
(*                             (src/src/sarathi/llm/response_parser.py)    *)
(*   - call_llm_model / LLMClient.call_sync retry loops                    *)
(*                             (src/src/sarathi/llm/call_llm.py,           *)
(*                              src/src/sarathi/llm/llm_client.py)         *)
(*   - AgentEngine.run_stream / run / _call_llm_stream                     *)
(*                             (src/src/sarathi/llm/agent_engine.py)       *)
(*   - ChatSession             (src/src/sarathi/cli/chat_cli.py)           *)
(*   - the batch fan-out, the file and command tools, and the readers of   *)
(*     server-sent-event streams (llm_client.py, call_llm.py)              *)
(*                                                                         *)
(* Every component has its own specification (SpecUsage, SpecRegistry,     *)
(* SpecAgg, SpecClean, SpecRetry, SpecEngine, SpecChat, SpecConfirm,       *)
(* SpecBatch, SpecTools, SpecParser, SpecSSE, SpecTurn).  It moves only    *)
(* the variables of its component (and of the components that component    *)
(* calls) and leaves the others at their initial value.                    *)
(*                                                                         *)
(* Python values: a str is a TLA+ string, a dict is a function on its      *)
(* keys, a list is a sequence.  Python's None in a place where a str is    *)
(* expected is the string None below, which no string of the model equals. *)
(***************************************************************************)
EXTENDS Integers, Sequences, FiniteSets, TLC

VARIABLES
    \* ---- UsageTracker (usage.py:10-14), the process-wide usage_tracker
    total_input_tokens, total_output_tokens, total_calls,
    usage_history,  \* ghost: the usage argument of every record_call since
                    \* construction or the last reset, in call order
    usage_was_reset, \* ghost: reset has been called
    \* ---- ToolRegistry (tools.py:22-24), the process-wide registry
    tools,          \* registry.tools: the set of registered tool names
    call_log,       \* ghost: every call_tool invocation, with what it returned
    exec_log,       \* ghost: every invocation of a tool executable (Tool.func)
    \* ---- ToolCallAggregator (response_parser.py:170-172)
    agg_chunks,     \* self._chunks: the slots, in insertion order (a dict keeps it)
    agg_fed,        \* ghost: every fragment given to add_chunk, in arrival order
    agg_calls,      \* the list get_complete_calls returned last
    agg_seen,       \* ghost: the fragments fed before that get_complete_calls
    agg_total,      \* ghost: the number of fragments ever given to add_chunk
    \* ---- ResponseParser.clean_reasoning_content, applied repeatedly to a text
    clean_input,    \* the text given to the first application
    clean_first,    \* what the first application returned
    clean_text,     \* what the last application returned (the input before any)
    clean_passes,   \* the number of applications so far
    clean_npieces,  \* ghost: the number of pieces the input was built from
    \* ---- one blocking provider call: call_llm_model or LLMClient.call_sync
    llm_pc,         \* "idle", "loop" (at the head of the retry loop), "done"
    llm_path,       \* the function running: "call_llm_model" or "call_sync"
    llm_resp_type,  \* call_llm_model's resp_type: "text" or None
    max_retries,    \* config.get("core.llm_retries", 3)
    attempt,        \* the loop variable of `for attempt in range(max_retries + 1)`
    retry_delay,    \* seconds the next backoff sleeps
    provider,       \* the provider's answers to the coming client.post calls of
                    \* this call, in order (an HTTP status or a transport error)
    requests,       \* ghost: what the provider answered to each client.post, in order
    sleeps,         \* ghost: the argument of every time.sleep, in order
    llm_result,     \* how the call ended: "none" while it runs, then "data", "text",
                    \* "no_choices" (error string), "error_dict" or "raised"
    \* ---- AgentEngine (agent_engine.py:9-29) and one run_stream generator
    messages,       \* self.messages: the conversation history
    has_callback,   \* self.tool_confirmation_callback is configured
    pc,             \* where the engine stands: "new" (not constructed), "idle"
                    \* (run_stream not called), "loop" (line 46),
                    \* "stream" (the for loop of line 53), "tools" (line 95),
                    \* "confirm" (suspended at the yield of line 99), "done"
                    \* (returned or exhausted), "raised" (an exception left it)
    iteration,      \* run_stream's iteration counter
    full_content,   \* the content accumulated in the current turn
    tool_calls_chunks, \* index -> tool call under assembly, in insertion order
    stream,         \* the chunks _call_llm_stream has still to yield in this turn
    stream_usage,   \* _call_llm_stream's total_prompt_tokens, total_completion_tokens
    turn_tool_calls, \* the list tool_calls of line 86
    tc_pos,         \* the position in turn_tool_calls of the call being handled
    out,            \* every token run_stream has yielded, in order
    llm_stream_calls, \* ghost: the number of _call_llm_stream invocations
    turn_scripts,   \* ghost: what the provider streamed in each turn, by name
    turn_start,     \* ghost: Len(messages) when the current turn began
    confirm_log,    \* ghost: every tool call handled: its id, whether the callback
                    \* was asked, its answer, and whether call_tool was invoked
    \* ---- ChatSession (chat_cli.py:29-49)
    permissions,    \* self.permissions: the tools allowed for good ("always")
    perm_log,       \* ghost: every _confirm_tool call: the tool, whether it was
                    \* allowed for good before, whether the user was prompted,
                    \* the user's choice, and the value returned
    chat_inputs,    \* ghost: the inputs given to process_input_stream so far
    chat_resets,    \* ghost: the /clear commands handled so far
    \* ---- the batch fan-out (parallel_analyzer.py:207-255, async_llm.py:106-130)
    batch_pc,       \* "idle", "fanout" (awaiting asyncio.gather), "coordinating"
                    \* (awaiting the coordinator's completion), "done", "raised"
    batch_kind,     \* "analyze_all" or "complete_batch"
    max_concurrent, \* the configured number of permits
    semaphore,      \* the permits of the asyncio.Semaphore that are free
    tasks,          \* per batch: the state of its task, and its summary and error
    batch_requests, \* ghost: the calls of AsyncLLMClient.complete issued so far
    coordinator_input, \* the batches whose summaries the coordinator prompt holds
    batch_result,   \* what the fan-out returned: "none" while it runs
    \* ---- the file and command tools (tool_library.py:18-44, 182-207)
    fs,             \* the files of the working directory: path -> content or None
    sec_log,        \* ghost: the calls of the tools with what each returned
    \* ---- AgentEngine: the tool list and the attempts of _call_llm_stream
    self_tools,     \* self.tools: the tool names the engine was constructed with
    advertised,     \* ghost: the tools whose definitions the last request body held
    stream_attempt, \* the loop variable `attempt` of _call_llm_stream (line 172)
    stream_retries, \* max_retries of _call_llm_stream (line 169)
    \* ---- ResponseParser.parse_streaming_chunk and parse_sync_response
    parse_log,      \* ghost: every call: the function, its input, whether the
                    \* parser is one of a reasoning model, and what came of it
    \* ---- one server-sent-event stream read by call_streaming or parse_stream
    sse_fn,         \* the function reading the lines
    sse_pc,         \* "idle", "open" (lines arrive), "closed" (the provider is done)
    sse_seen,       \* ghost: the lines received so far, in order
    sse_yielded,    \* ghost: the chunks yielded so far, in order
    sse_usage       \* total_prompt_tokens and total_completion_tokens of the call

usageVars == <<total_input_tokens, total_output_tokens, total_calls, usage_history,
               usage_was_reset>>
regVars == <<tools, call_log, exec_log>>
aggVars == <<agg_chunks, agg_fed, agg_calls, agg_seen, agg_total>>
cleanVars == <<clean_input, clean_first, clean_text, clean_passes, clean_npieces>>
engineVars == <<messages, has_callback, pc, iteration, full_content, tool_calls_chunks,
                stream, stream_usage, turn_tool_calls, tc_pos, out, llm_stream_calls,
                turn_scripts, turn_start, confirm_log>>
chatVars == <<permissions, perm_log, chat_inputs, chat_resets>>
batchVars == <<batch_pc, batch_kind, max_concurrent, semaphore, tasks, batch_requests,
               coordinator_input, batch_result>>
secVars == <<fs, sec_log>>
turnVars == <<self_tools, advertised, stream_attempt, stream_retries>>
parseVars == <<parse_log>>
sseVars == <<sse_fn, sse_pc, sse_seen, sse_yielded, sse_usage>>
newVars == <<turnVars, parseVars, sseVars>>
extVars == <<chatVars, batchVars, secVars, newVars>>
llmVars == <<llm_pc, llm_path, llm_resp_type, max_retries, attempt, retry_delay,
             provider, requests, sleeps, llm_result>>

None == "<None>"

\* Concatenation of a sequence of strings ("".join(seq)).
RECURSIVE Concat(_)
Concat(seq) == IF seq = <<>> THEN "" ELSE Head(seq) \o Concat(Tail(seq))

RECURSIVE SumSeq(_)
SumSeq(seq) == IF seq = <<>> THEN 0 ELSE Head(seq) + SumSeq(Tail(seq))

\* str.startswith(prefix)
StartsWith(s, prefix) ==
    Len(s) >= Len(prefix) /\ SubSeq(s, 1, Len(prefix)) = prefix

\* The character at position i of a string, as a string of length 1.
CharAt(s, i) == SubSeq(s, i, i)

\* str.lower() on the letters the patterns use (re.IGNORECASE compares so).
LowerChar(c) ==
    CASE c = "S" -> "s" [] c = "Y" -> "y" [] c = "T" -> "t"
      [] c = "E" -> "e" [] c = "M" -> "m" [] OTHER -> c

RECURSIVE Lower(_)
Lower(s) == IF s = "" THEN "" ELSE LowerChar(CharAt(s, 1)) \o Lower(SubSeq(s, 2, Len(s)))

\* Python's str.isspace() on the characters of the model.
IsSpace(c) == c \in {" ", "\n", "\t"}

(***************************************************************************)
(* UsageTracker                                                            *)
(***************************************************************************)
MaxTok == 1          \* token counts of one usage record range over 0..MaxTok
MaxRecords == 3      \* record_call operations between two resets

\* dict.get(k) is truthy: the key is present and its value is not 0.
Truthy(usage, k) == k \in DOMAIN usage /\ usage[k] # 0

\* usage.get(k, 0)
GetOr0(usage, k) == IF k \in DOMAIN usage THEN usage[k] ELSE 0

\* usage.get("prompt_tokens") or usage.get("input_tokens") or 0
PromptOrInput(usage) ==
    IF Truthy(usage, "prompt_tokens") THEN usage["prompt_tokens"]
    ELSE IF Truthy(usage, "input_tokens") THEN usage["input_tokens"]
    ELSE 0

\* The amount record_call adds to total_input_tokens (usage.py:32-38).  The
\* conditional expression binds loosest: (a or b or t - c) if cond else (a or b or 0)
\* and under cond neither a nor b is present, so the first arm is t - c.
InputDelta(usage) ==
    IF "prompt_tokens" \notin DOMAIN usage /\ "input_tokens" \notin DOMAIN usage
    THEN GetOr0(usage, "total_tokens") - GetOr0(usage, "completion_tokens")
    ELSE PromptOrInput(usage)

\* usage.get("completion_tokens") or usage.get("output_tokens") or 0 (usage.py:40-42)
OutputDelta(usage) ==
    IF Truthy(usage, "completion_tokens") THEN usage["completion_tokens"]
    ELSE IF Truthy(usage, "output_tokens") THEN usage["output_tokens"]
    ELSE 0

\* A plausible slip in record_call: the input total is assigned, not incremented.
RecordInputOverwrite(total, usage) == InputDelta(usage)

\* self.total_input_tokens += ... ; `if usage:` skips None and the empty dict.
RecordInput(total, usage) ==
    IF DOMAIN usage = {} THEN total ELSE total + InputDelta(usage)

RecordOutput(total, usage) ==
    IF DOMAIN usage = {} THEN total ELSE total + OutputDelta(usage)

\* UsageTracker.record_call(time_seconds, usage); elapsed time is not modelled.
record_call(usage) ==
    /\ total_calls' = total_calls + 1
    /\ total_input_tokens' = RecordInput(total_input_tokens, usage)
    /\ total_output_tokens' = RecordOutput(total_output_tokens, usage)
    /\ usage_history' = Append(usage_history, usage)
    /\ usage_was_reset' = usage_was_reset

\* UsageTracker.reset()
reset ==
    /\ total_calls' = 0
    /\ total_input_tokens' = 0
    /\ total_output_tokens' = 0
    /\ usage_history' = <<>>
    /\ usage_was_reset' = TRUE

\* UsageTracker.__init__
UsageInit ==
    /\ total_calls = 0
    /\ total_input_tokens = 0
    /\ total_output_tokens = 0
    /\ usage_history = <<>>
    /\ usage_was_reset = FALSE

\* The usage dicts the providers send: OpenAI keys, Anthropic keys, the
\* total_tokens fallback, a lone prompt_tokens, and no usage at all (None).
UsageShapes ==
    { {"prompt_tokens", "completion_tokens"},
      {"input_tokens", "output_tokens"},
      {"total_tokens", "completion_tokens"},
      {"prompt_tokens"},
      {} }

UsageDicts == UNION { [shape -> 0..MaxTok] : shape \in UsageShapes }

IsOpenAIUsage(usage) == DOMAIN usage = {"prompt_tokens", "completion_tokens"}


(***************************************************************************)
(* ToolRegistry                                                            *)
(***************************************************************************)
MaxToolCalls == 2    \* call_tool invocations in one behaviour of SpecRegistry

\* The tool names a model may ask for.  read_file and get_git_diff are
\* registered by tool_library.py; "boom" stands for a registered tool whose
\* body raises; "nope" is never registered.
ToolNames == {"read_file", "get_git_diff", "boom", "nope"}
Registrable == {"read_file", "get_git_diff", "boom"}

\* The keyword parameters of each executable (inspect.signature, tools.py:38-46).
ToolParams(name) ==
    CASE name = "read_file" -> {"filepath"}
      [] OTHER -> {}

\* The arguments_json strings of the model.
ArgsFile == "{\"filepath\": \"x.py\"}"
ArgsNone == "{}"
ArgsBogus == "{\"bogus\": 1}"
ArgsList == "[1]"
ArgsCut == "{\"filepath"
ArgStrings == {ArgsFile, ArgsNone, ArgsBogus, ArgsList, ArgsCut, ""}

\* json.loads(arguments_json): the decoded value, or a JSONDecodeError.
JsonLoads(s) ==
    CASE s = ArgsFile  -> [ok |-> TRUE, object |-> TRUE, keys |-> {"filepath"}]
      [] s = ArgsNone  -> [ok |-> TRUE, object |-> TRUE, keys |-> {}]
      [] s = ArgsBogus -> [ok |-> TRUE, object |-> TRUE, keys |-> {"bogus"}]
      [] s = ArgsList  -> [ok |-> TRUE, object |-> FALSE, keys |-> {}]
      [] OTHER         -> [ok |-> FALSE, object |-> FALSE, keys |-> {}]

\* self.tools[name].func(**args): binding the keyword arguments raises a
\* TypeError unless args is a mapping whose keys are the parameters; then
\* the body runs and returns its string or raises.
ToolFunc(name, args) ==
    IF ~args.object \/ args.keys # ToolParams(name)
    THEN [entered |-> FALSE, raised |-> TRUE, value |-> "TypeError"]
    ELSE CASE name = "read_file"    -> [entered |-> TRUE, raised |-> FALSE, value |-> "print(1)"]
           [] name = "get_git_diff" -> [entered |-> TRUE, raised |-> FALSE, value |-> "diff"]
           [] OTHER                 -> [entered |-> TRUE, raised |-> TRUE, value |-> "boom failed"]

\* A plausible slip in call_tool: no membership test, and the lookup
\* self.tools[name] made before the try block, so a KeyError escapes.
NotFoundRaises(name) == [result |-> None, raised |-> TRUE, entered |-> FALSE]

\* tools.py:56-57: the name is not registered.
NotFound(name) ==
    [result |-> "Error: Tool " \o name \o " not found.",
     raised |-> FALSE, entered |-> FALSE]

\* A plausible slip in call_tool: the try block has no except clause, so
\* what the argument parsing or the tool body raises leaves call_tool.
ExecErrorEscapes(name, message, entered) ==
    [result |-> None, raised |-> TRUE, entered |-> entered]

\* tools.py:62-63: whatever the try block raises is returned as a string.
ExecError(name, message, entered) ==
    [result |-> "Error executing tool " \o name \o ": " \o message,
     raised |-> FALSE, entered |-> entered]

\* ToolRegistry.call_tool(name, arguments_json) (tools.py:55-63): what it
\* returns, whether it raises, and whether a tool body was entered.
CallTool(registered, name, arguments_json) ==
    IF name \notin registered
    THEN NotFound(name)
    ELSE LET args == JsonLoads(arguments_json) IN
         IF ~args.ok
         THEN ExecError(name, "JSONDecodeError", FALSE)
         ELSE LET r == ToolFunc(name, args) IN
              IF r.raised
              THEN ExecError(name, r.value, r.entered)
              ELSE [result |-> r.value, raised |-> FALSE, entered |-> TRUE]

\* registry.call_tool(...) as a step: the call and what it does to the logs.
call_tool(name, arguments_json) ==
    LET r == CallTool(tools, name, arguments_json) IN
    /\ exec_log' = IF r.entered THEN Append(exec_log, name) ELSE exec_log
    /\ call_log' = Append(call_log, [name |-> name, args |-> arguments_json,
                                      registered |-> name \in tools,
                                      result |-> r.result, raised |-> r.raised,
                                      executed |-> Len(exec_log') - Len(exec_log)])
    /\ tools' = tools

\* ToolRegistry.register(name)(func): re-registering overwrites.
register(name) ==
    /\ tools' = tools \cup {name}
    /\ UNCHANGED <<call_log, exec_log>>

\* tool_library.py registers its tools when it is imported.
LibraryTools == {"read_file", "get_git_diff"}


(***************************************************************************)
(* ToolCallAggregator                                                      *)
(*                                                                         *)
(* A tool-call fragment is a dict with any of the keys index, id, name,    *)
(* arguments (name and arguments are the keys of its "function" dict).     *)
(* self._chunks is a sequence of slots [index, id, name, arguments] in     *)
(* insertion order, one slot per index.                                    *)
(***************************************************************************)
MaxFrags == 3        \* fragments given to one aggregator

\* tc.get(k) is truthy: present and not the empty string.
Has(tc, k) == k \in DOMAIN tc /\ tc[k] # ""

\* tc.get("index", 0)
IndexOf(tc) == IF "index" \in DOMAIN tc THEN tc["index"] ELSE 0

\* tc.get("id")
IdOf(tc) == IF "id" \in DOMAIN tc THEN tc["id"] ELSE None

\* The position of index idx in the slots, 0 when `idx not in self._chunks`.
SlotPos(chunks, idx) ==
    IF \E i \in 1..Len(chunks) : chunks[i].index = idx
    THEN CHOOSE i \in 1..Len(chunks) : chunks[i].index = idx
    ELSE 0

\* response_parser.py:184-189: a new slot for an index not seen before.
WithSlot(chunks, tc) ==
    IF SlotPos(chunks, IndexOf(tc)) = 0
    THEN Append(chunks, [index |-> IndexOf(tc), id |-> IdOf(tc),
                         name |-> "", arguments |-> ""])
    ELSE chunks

\* A plausible slip: the delta replaces the accumulated string.
AddDeltaOverwrite(acc, tc, k) == IF Has(tc, k) THEN tc[k] ELSE acc

\* response_parser.py:195-198: `if func.get(k): slot[k] += func.get(k)`.
AddDelta(acc, tc, k) == IF Has(tc, k) THEN acc \o tc[k] ELSE acc

\* response_parser.py:181-198, the body of add_chunk's loop for one fragment.
AddFragment(chunks, tc) ==
    LET with == WithSlot(chunks, tc)
        pos == SlotPos(with, IndexOf(tc))
        slot == with[pos]
    IN [with EXCEPT ![pos] =
          [index |-> slot.index,
           id |-> IF Has(tc, "id") THEN tc["id"] ELSE slot.id,
           name |-> AddDelta(slot.name, tc, "name"),
           arguments |-> AddDelta(slot.arguments, tc, "arguments")]]

\* ToolCallAggregator.add_chunk(tool_calls): the loop over the list.
RECURSIVE AddChunk(_, _)
AddChunk(chunks, tool_calls) ==
    IF tool_calls = <<>> THEN chunks
    ELSE AddChunk(AddFragment(chunks, Head(tool_calls)), Tail(tool_calls))

\* ToolCallAggregator.get_complete_calls(): list(self._chunks.values()).
GetCompleteCalls(chunks) ==
    [i \in 1..Len(chunks) |->
        [id |-> chunks[i].id, type |-> "function",
         function |-> [name |-> chunks[i].name, arguments |-> chunks[i].arguments]]]

\* ToolCallAggregator.has_calls()
HasCalls(chunks) == Len(chunks) > 0

\* The fragments of the model.  Those of index 0 (no "index" key: the
\* default) carry every subset of id, name and arguments; two fragments of
\* index 1 arrive in between.
FragKeys == {"id", "name", "arguments"}
Frag(keys, id, name, arguments) ==
    [k \in keys |-> CASE k = "id" -> id
                      [] k = "name" -> name
                      [] OTHER -> arguments]
Fragments ==
    { Frag(keys, "call_1", name, "{}") :
        keys \in SUBSET FragKeys, name \in {"read_", "file"} }
    \cup { [index |-> 1, name |-> "file"],
           [index |-> 1, id |-> "call_2", arguments |-> "{}"] }

add_chunk(tool_calls) ==
    /\ agg_chunks' = AddChunk(agg_chunks, tool_calls)
    /\ agg_fed' = agg_fed \o tool_calls
    /\ agg_total' = agg_total + Len(tool_calls)
    /\ UNCHANGED <<agg_calls, agg_seen>>

get_complete_calls ==
    /\ agg_calls' = GetCompleteCalls(agg_chunks)
    /\ agg_seen' = agg_fed
    /\ UNCHANGED <<agg_chunks, agg_fed, agg_total>>

\* ToolCallAggregator.clear()
clear ==
    /\ agg_chunks' = <<>>
    /\ agg_fed' = <<>>
    /\ UNCHANGED <<agg_calls, agg_seen, agg_total>>

\* ToolCallAggregator.__init__
AggInit ==
    /\ agg_chunks = <<>>
    /\ agg_fed = <<>>
    /\ agg_calls = <<>>
    /\ agg_seen = <<>>
    /\ agg_total = 0


(***************************************************************************)
(* ResponseParser.clean_reasoning_content                                  *)
(*                                                                         *)
(* The four SYSTEM_PROMPT_PATTERNS are compiled with re.DOTALL and         *)
(* re.IGNORECASE and without re.MULTILINE: `^` matches at the start of the *)
(* text only, so pattern.sub("", text) removes at most one match, the one  *)
(* at position 1; `.*?` is lazy, so the match ends at the first closing    *)
(* literal after the opening one.                                          *)
(***************************************************************************)
MaxPieces == 4       \* pieces an input text is built from

\* The literal pat matches at position i of s, ignoring case.
MatchAt(s, i, pat) ==
    /\ i + Len(pat) - 1 <= Len(s)
    /\ Lower(SubSeq(s, i, i + Len(pat) - 1)) = Lower(pat)

\* The first position >= from where pat matches, 0 when there is none.
Find(s, pat, from) ==
    IF \E j \in from..Len(s) : MatchAt(s, j, pat)
    THEN CHOOSE j \in from..Len(s) :
            MatchAt(s, j, pat) /\ \A k \in from..(j - 1) : ~MatchAt(s, k, pat)
    ELSE 0

\* The first position >= i that holds no whitespace (Len(s) + 1 at the end): `\s*`.
SkipSpaces(s, i) ==
    IF \E j \in i..Len(s) : ~IsSpace(CharAt(s, j))
    THEN CHOOSE j \in i..Len(s) :
            ~IsSpace(CharAt(s, j)) /\ \A k \in i..(j - 1) : IsSpace(CharAt(s, k))
    ELSE Len(s) + 1

\* re.compile("^" + open + ".*?" + close + ("\s*" if spaces else "")).sub("", s)
SubPattern(s, open, close, spaces) ==
    IF ~MatchAt(s, 1, open) THEN s
    ELSE LET j == Find(s, close, Len(open) + 1) IN
         IF j = 0 THEN s
         ELSE LET e == j + Len(close)
                  k == IF spaces THEN SkipSpaces(s, e) ELSE e
              IN SubSeq(s, k, Len(s))

\* str.strip()
RECURSIVE LStrip(_)
LStrip(s) ==
    IF s # "" /\ IsSpace(CharAt(s, 1)) THEN LStrip(SubSeq(s, 2, Len(s))) ELSE s
RECURSIVE RStrip(_)
RStrip(s) ==
    IF s # "" /\ IsSpace(CharAt(s, Len(s))) THEN RStrip(SubSeq(s, 1, Len(s) - 1)) ELSE s
Strip(s) == RStrip(LStrip(s))

\* response_parser.py:83-85: the patterns applied once each, in list order.
ApplyPatterns(content) ==
    LET p1 == SubPattern(content, "<|system|>", "<|/system|>", TRUE)
        p2 == SubPattern(p1, "<system>", "</system>", TRUE)
        p3 == SubPattern(p2, "[SYSTEM]", "[/SYSTEM]", TRUE)
    IN SubPattern(p3, "System:", "\n\n", FALSE)

\* ResponseParser.clean_reasoning_content(content) (response_parser.py:67-87)
clean_reasoning_content(content) ==
    IF content = "" THEN content ELSE Strip(ApplyPatterns(content))

\* Some supported artifact occurs in the text: one of the patterns, taken
\* without its anchor, matches somewhere.
OccursIn(s, open, close) ==
    \E i \in 1..Len(s) : MatchAt(s, i, open) /\ Find(s, close, i + Len(open)) # 0
ContainsArtifact(s) ==
    \/ OccursIn(s, "<|system|>", "<|/system|>")
    \/ OccursIn(s, "<system>", "</system>")
    \/ OccursIn(s, "[SYSTEM]", "[/SYSTEM]")
    \/ OccursIn(s, "System:", "\n\n")

\* What the input texts are built from: the opening and closing literals of
\* the four styles, whitespace and ordinary text.
Pieces ==
    {"<|system|>", "<|/system|>", "<system>", "</system>", "[SYSTEM]", "[/system]",
     "System:", "\n\n", " ", "a"}

\* A reasoning text arrives (the argument of the first application).
CleanInput(piece) ==
    /\ clean_passes = 0
    /\ clean_npieces < MaxPieces
    /\ clean_npieces' = clean_npieces + 1
    /\ clean_input' = clean_input \o piece
    /\ clean_text' = clean_input'
    /\ UNCHANGED <<clean_first, clean_passes>>

\* clean_reasoning_content is applied to the text, then to its own result.
CleanPass ==
    /\ clean_passes < 2
    /\ clean_text' = clean_reasoning_content(clean_text)
    /\ clean_first' = IF clean_passes = 0 THEN clean_text' ELSE clean_first
    /\ clean_passes' = clean_passes + 1
    /\ UNCHANGED <<clean_input, clean_npieces>>

CleanInit ==
    /\ clean_input = ""
    /\ clean_first = ""
    /\ clean_text = ""
    /\ clean_passes = 0
    /\ clean_npieces = 0


(***************************************************************************)
(* The blocking provider call and its retry loop: call_llm_model           *)
(* (call_llm.py:74-126) and LLMClient.call_sync (llm_client.py:258-299).   *)
(* One step is one iteration of `for attempt in range(max_retries + 1)`:   *)
(* one client.post and everything the iteration does with its outcome.     *)
(***************************************************************************)
MaxRetriesCfg == 3   \* core.llm_retries ranges over 0..MaxRetriesCfg
InitialRetryDelay == 2
DefaultRetries == 3

\* What one client.post can come to: an HTTP status, or a transport error
\* (httpx.HTTPError raised by the request itself).
Outcomes == {"200", "429", "500", "transport_error"}

\* The response bodies of a 200: with a first choice, or with no choices.
Bodies == {"choices", "no_choices"}

\* A plausible slip in the backoff: the delay grows by 2 instead of doubling.
NextDelayLinear(delay) == delay + 2

\* retry_delay *= 2 (call_llm.py:92 and 122, llm_client.py:276 and 295)
NextDelay(delay) == delay * 2

\* The iteration retries: a 429 before the last attempt (call_llm.py:86-93),
\* or an httpx.HTTPError (raise_for_status on a 429 of the last attempt or on
\* another error status, or a transport error) caught before the last
\* attempt (call_llm.py:116-123).
Retries(outcome, att, retries) == outcome # "200" /\ att < retries

\* What call_llm_model returns for a 200 (call_llm.py:104-114).
ModelResult(resp_type, body) ==
    IF resp_type = "text"
    THEN IF body = "no_choices" THEN "no_choices" ELSE "text"
    ELSE "data"

\* The three entry points with this retry loop: call_llm_model, the blocking
\* LLMClient.call_sync, and the streaming one (LLMClient.call_streaming,
\* llm_client.py:159-230, and AgentEngine._call_llm_stream,
\* agent_engine.py:168-238, which share the loop line for line).
Paths == {"call_llm_model", "call_sync", "call_streaming"}

\* A plausible slip: the except clause of the last attempt does not re-raise
\* and the call falls through to an empty response.
FailureSwallowed(path) == IF path = "call_llm_model" THEN "error_dict" ELSE "empty"

\* How the call ends when the last attempt fails: call_llm_model returns
\* {"Error": ...} (call_llm.py:125-126), call_sync and the streaming calls
\* re-raise (llm_client.py:222-230 and 297, agent_engine.py:230-238).
Failure(path) == IF path = "call_llm_model" THEN "error_dict" ELSE "raised"

\* What a streaming call records when its stream has ended
\* (llm_client.py:212-219, agent_engine.py:218-228).
StreamTotals(p, c) ==
    [prompt_tokens |-> p, completion_tokens |-> c, total_tokens |-> p + c]

\* The answers a provider may give to the up to retries + 1 requests of a call.
ProviderScripts(retries) == [1..(retries + 1) -> Outcomes]

\* What client.post of the current iteration comes to.
Answer == provider[Len(requests) + 1]

\* call_llm_model(...) / LLMClient.call_sync(...) is entered.
LLMCall(path, resp_type, retries, script) ==
    /\ llm_pc = "idle"
    /\ llm_pc' = "loop"
    /\ llm_path' = path
    /\ llm_resp_type' = resp_type
    /\ max_retries' = retries
    /\ provider' = script
    /\ attempt' = 0
    /\ retry_delay' = InitialRetryDelay
    /\ requests' = <<>>
    /\ sleeps' = <<>>
    /\ llm_result' = "none"
    /\ UNCHANGED usageVars

\* One iteration of the retry loop that ends in a sleep and `continue`.
AttemptRetry ==
    /\ llm_pc = "loop"
    /\ Retries(Answer, attempt, max_retries)
    /\ requests' = Append(requests, Answer)
    /\ sleeps' = Append(sleeps, retry_delay)
    /\ retry_delay' = NextDelay(retry_delay)
    /\ attempt' = attempt + 1
    /\ UNCHANGED <<llm_pc, llm_path, llm_resp_type, max_retries, provider, llm_result>>
    /\ UNCHANGED usageVars

\* The iteration of the last attempt fails: no retry is left.
AttemptFail ==
    /\ llm_pc = "loop"
    /\ Answer # "200"
    /\ ~Retries(Answer, attempt, max_retries)
    /\ requests' = Append(requests, Answer)
    /\ llm_result' = Failure(llm_path)
    /\ llm_pc' = "done"
    /\ UNCHANGED <<llm_path, llm_resp_type, max_retries, provider, attempt,
                   retry_delay, sleeps>>
    /\ UNCHANGED usageVars

\* The iteration gets a 200: usage is recorded and the response returned.
AttemptSuccess(body, usage) ==
    /\ llm_pc = "loop"
    /\ Answer = "200"
    /\ requests' = Append(requests, Answer)
    /\ record_call(usage)
    /\ llm_result' = CASE llm_path = "call_llm_model" -> ModelResult(llm_resp_type, body)
                        [] llm_path = "call_sync" -> "data"
                        [] OTHER -> "stream_end"
    /\ llm_pc' = "done"
    /\ UNCHANGED <<llm_path, llm_resp_type, max_retries, provider, attempt,
                   retry_delay, sleeps>>

LLMInit ==
    /\ llm_pc = "idle"
    /\ llm_path = "call_llm_model"
    /\ llm_resp_type = None
    /\ max_retries = DefaultRetries
    /\ attempt = 0
    /\ retry_delay = InitialRetryDelay
    /\ provider = <<>>
    /\ requests = <<>>
    /\ sleeps = <<>>
    /\ llm_result = "none"


(***************************************************************************)
(* AgentEngine.run_stream and run (agent_engine.py:31-130)                 *)
(*                                                                         *)
(* A streamed chunk is the dict the provider sent: "choices" (a list of    *)
(* dicts with a "delta") and "usage" are both optional.  A delta holds an  *)
(* optional "content" and an optional "tool_calls" list of fragments, the  *)
(* fragments being those of the ToolCallAggregator above.                  *)
(***************************************************************************)
max_iterations == 10
MaxTwoCallTurns == 1 \* turns of one run in which the model asks for two tools
MaxDenials == 1      \* tool calls of one run the confirmation callback denies

SystemPrompt == "You are a coding assistant."
UserInput == "Call tool"
DeniedText == "Tool execution was denied by the user."
\* agent_engine.py:130, without the warning sign that precedes it.
SafetyText == "Safety Limit reached (10 tool iterations)."

\* The id the provider gives the k-th tool call of its n-th response.
CallId(n, k) == "call_" \o ToString(n) \o "_" \o ToString(k)

ContentChunk(text) == [choices |-> <<[delta |-> [content |-> text]]>>]
ToolChunk(fragments) == [choices |-> <<[delta |-> [tool_calls |-> fragments]]>>]
UsageOnly(p, c) == [usage |-> [prompt_tokens |-> p, completion_tokens |-> c]]

\* What the provider streams in its n-th response, by name:
\*   done       the content "Done" in two deltas around a chunk without choices
\*   empty      no chunk at all
\*   tool       one call read_file({"filepath": "x.py"}), split over three chunks
\*   tools2     the content "Hi", then in one chunk fragments of two calls,
\*              index 1 (the unregistered tool nope) before index 0 (get_git_diff)
\*   usage_tail the content "Done", then a usage chunk whose choices list is empty
\*   bad_json   one call of read_file whose arguments are cut-off JSON
\*   bad_kwargs one call of get_git_diff with an argument it does not take
\*   boom       one call of boom, a tool whose body raises
TurnScriptNames == {"done", "empty", "tool", "tools2", "usage_tail"}
TurnScript(name, n) ==
    CASE name = "done" ->
           <<ContentChunk("Do"), UsageOnly(1, 1), ContentChunk("ne")>>
      [] name = "empty" -> <<>>
      [] name = "tool" ->
           <<ToolChunk(<<[index |-> 0, id |-> CallId(n, 0), name |-> "read_",
                          arguments |-> ""]>>),
             ToolChunk(<<[index |-> 0, name |-> "file", arguments |-> "{\"filepath\""]>>),
             ToolChunk(<<[index |-> 0, arguments |-> ": \"x.py\"}"]>>)>>
      [] name = "tools2" ->
           <<ContentChunk("Hi"),
             ToolChunk(<<[index |-> 1, id |-> CallId(n, 1), name |-> "nope",
                          arguments |-> "{}"],
                         [index |-> 0, id |-> CallId(n, 0), name |-> "get_git_diff",
                          arguments |-> "{}"]>>)>>
      [] name = "bad_json" ->
           <<ToolChunk(<<[index |-> 0, id |-> CallId(n, 0), name |-> "read_file",
                          arguments |-> ArgsCut]>>)>>
      [] name = "bad_kwargs" ->
           <<ToolChunk(<<[index |-> 0, id |-> CallId(n, 0), name |-> "get_git_diff",
                          arguments |-> ArgsBogus]>>)>>
      [] name = "boom" ->
           <<ToolChunk(<<[index |-> 0, id |-> CallId(n, 0), name |-> "boom",
                          arguments |-> ArgsNone]>>)>>
      [] OTHER ->
           <<ContentChunk("Done"),
             [choices |-> <<>>, usage |-> [prompt_tokens |-> 1, completion_tokens |-> 1]]>>

\* chunk.get("choices", [{}])[0].get("delta", {}) (agent_engine.py:54): the
\* delta, or the IndexError of [][0] when the choices list is empty.
DeltaIn(chunk) ==
    IF "choices" \notin DOMAIN chunk THEN [ok |-> TRUE, delta |-> <<>>]
    ELSE IF chunk["choices"] = <<>> THEN [ok |-> FALSE, delta |-> <<>>]
    ELSE IF "delta" \notin DOMAIN chunk["choices"][1] THEN [ok |-> TRUE, delta |-> <<>>]
    ELSE [ok |-> TRUE, delta |-> chunk["choices"][1]["delta"]]

\* agent_engine.py:207-212: a usage field overwrites the counts of the stream.
StreamUsage(current, chunk) ==
    IF "usage" \in DOMAIN chunk /\ DOMAIN chunk["usage"] # {}
    THEN [prompt_tokens |-> GetOr0(chunk["usage"], "prompt_tokens"),
          completion_tokens |-> GetOr0(chunk["usage"], "completion_tokens")]
    ELSE current

\* agent_engine.py:66-82: one fragment into tool_calls_chunks.
EngineAddFragment(chunks, tc) ==
    LET idx == IndexOf(tc)
        with == IF SlotPos(chunks, idx) = 0
                THEN Append(chunks, [index |-> idx, id |-> IdOf(tc),
                                     name |-> "", arguments |-> ""])
                ELSE chunks
        pos == SlotPos(with, idx)
        slot == with[pos]
    IN [with EXCEPT ![pos] =
          [index |-> idx,
           id |-> IF Has(tc, "id") THEN tc["id"] ELSE slot.id,
           name |-> IF Has(tc, "name") THEN slot.name \o tc["name"] ELSE slot.name,
           arguments |-> IF Has(tc, "arguments")
                         THEN slot.arguments \o tc["arguments"] ELSE slot.arguments]]

\* agent_engine.py:63-65: `if tool_calls_delta: for tc in tool_calls_delta`.
RECURSIVE EngineAddFragments(_, _)
EngineAddFragments(chunks, fragments) ==
    IF fragments = <<>> THEN chunks
    ELSE EngineAddFragments(EngineAddFragment(chunks, Head(fragments)), Tail(fragments))

ToolCallsDelta(delta) ==
    IF "tool_calls" \in DOMAIN delta THEN delta["tool_calls"] ELSE <<>>

\* A yielded token: every yield of run_stream yields a str.
StrToken(text) == [type |-> "str", value |-> text]

\* agent_engine.py:99
CallingToolText(func_name) == "\n[dim]Calling tool: " \o func_name \o "...[/dim]\n"

\* A plausible slip: the bound is tested with <=, one iteration too many.
LoopContinuesInclusive(n) == n <= max_iterations

\* agent_engine.py:46: `while iteration < max_iterations`
LoopContinues(n) == n < max_iterations

\* A plausible slip: the `continue` after the denial message is missing.
DispatchesAlways(configured, answer) == TRUE

\* agent_engine.py:101-113: the tool is dispatched unless a callback is
\* configured and its answer is falsy.
Dispatches(configured, answer) == ~(configured /\ ~answer)

\* A plausible slip: the final assistant message is appended without the
\* `if full_content` test.
FinalMessagesAlways(content) == <<[role |-> "assistant", content |-> content]>>

\* agent_engine.py:126-127: what a turn without tool calls adds to the history.
FinalMessages(content) ==
    IF content # "" THEN <<[role |-> "assistant", content |-> content]>> ELSE <<>>

\* agent_engine.py:86-92: the tool-call list and the assistant message of it.
ToolCallList(chunks) ==
    [i \in 1..Len(chunks) |->
        [id |-> chunks[i].id, type |-> "function",
         function |-> [name |-> chunks[i].name, arguments |-> chunks[i].arguments]]]

AssistantToolMessage(content, calls) ==
    [role |-> "assistant",
     content |-> IF content # "" THEN content ELSE None,
     tool_calls |-> calls]

\* A plausible slip: the tool's name is stored where the call's id belongs.
ToolMessageByName(tool_call, content) ==
    [role |-> "tool", tool_call_id |-> tool_call.function.name,
     name |-> tool_call.function.name, content |-> content]

\* agent_engine.py:103-110 and 114-121: the tool-role message of a call.
ToolMessage(tool_call, content) ==
    [role |-> "tool", tool_call_id |-> tool_call.id,
     name |-> tool_call.function.name, content |-> content]

\* AgentEngine.run(user_input) (agent_engine.py:31-37): the str tokens joined.
RunResult(tokens) ==
    LET strs == SelectSeq(tokens, LAMBDA t : t.type = "str")
    IN Concat([i \in 1..Len(strs) |-> strs[i].value])

TwoCallTurns == Cardinality({ i \in 1..Len(turn_scripts) : turn_scripts[i] = "tools2" })
Denials == Cardinality({ i \in 1..Len(confirm_log) : ~confirm_log[i].answer })

\* No AgentEngine is constructed yet.
EngineInit ==
    /\ messages = <<>>
    /\ has_callback = FALSE
    /\ pc = "new"
    /\ iteration = 0
    /\ full_content = ""
    /\ tool_calls_chunks = <<>>
    /\ stream = <<>>
    /\ stream_usage = [prompt_tokens |-> 0, completion_tokens |-> 0]
    /\ turn_tool_calls = <<>>
    /\ tc_pos = 0
    /\ out = <<>>
    /\ llm_stream_calls = 0
    /\ turn_scripts = <<>>
    /\ turn_start = 0
    /\ confirm_log = <<>>

\* AgentEngine(agent_name, system_prompt, tools, tool_confirmation_callback)
\* (agent_engine.py:9-29): the history is seeded with the system message if
\* a prompt is given.
AgentEngine(system_prompt, callback) ==
    /\ pc = "new"
    /\ messages' = IF system_prompt # None
                   THEN <<[role |-> "system", content |-> system_prompt]>> ELSE <<>>
    /\ has_callback' = callback
    /\ pc' = "idle"
    /\ UNCHANGED <<iteration, full_content, tool_calls_chunks, stream, stream_usage,
                   turn_tool_calls, tc_pos, out, llm_stream_calls, turn_scripts,
                   turn_start, confirm_log>>
    /\ UNCHANGED <<usageVars, regVars>>

\* run_stream(user_input) is entered (agent_engine.py:41-44).
RunStream(user_input) ==
    /\ pc = "idle"
    /\ messages' = Append(messages, [role |-> "user", content |-> user_input])
    /\ iteration' = 0
    /\ pc' = "loop"
    /\ UNCHANGED <<has_callback, full_content, tool_calls_chunks, stream, stream_usage,
                   turn_tool_calls, tc_pos, out, llm_stream_calls, turn_scripts, turn_start,
                   confirm_log>>
    /\ UNCHANGED <<usageVars, regVars>>

\* The head of the while loop lets another turn in and _call_llm_stream is
\* called (agent_engine.py:46-53); the provider will stream `script`.
LoopHead(script) ==
    /\ pc = "loop"
    /\ LoopContinues(iteration)
    /\ script = "tools2" => TwoCallTurns < MaxTwoCallTurns
    /\ iteration' = iteration + 1
    /\ full_content' = ""
    /\ tool_calls_chunks' = <<>>
    /\ llm_stream_calls' = llm_stream_calls + 1
    /\ stream' = TurnScript(script, llm_stream_calls')
    /\ stream_usage' = [prompt_tokens |-> 0, completion_tokens |-> 0]
    /\ turn_scripts' = Append(turn_scripts, script)
    /\ turn_start' = Len(messages)
    /\ pc' = "stream"
    /\ UNCHANGED <<messages, has_callback, turn_tool_calls, tc_pos, out, confirm_log>>
    /\ UNCHANGED <<usageVars, regVars>>

\* The while loop ends on its bound and the warning is yielded
\* (agent_engine.py:46 and 130).
SafetyLimit ==
    /\ pc = "loop"
    /\ ~LoopContinues(iteration)
    /\ out' = Append(out, StrToken(SafetyText))
    /\ pc' = "done"
    /\ UNCHANGED <<messages, has_callback, iteration, full_content, tool_calls_chunks,
                   stream, stream_usage, turn_tool_calls, tc_pos, llm_stream_calls,
                   turn_scripts, turn_start, confirm_log>>
    /\ UNCHANGED <<usageVars, regVars>>

\* _call_llm_stream gives up: the last attempt raised (agent_engine.py:230-238)
\* and the exception leaves run_stream.
StreamRaises ==
    /\ pc = "stream"
    /\ pc' = "raised"
    /\ UNCHANGED <<messages, has_callback, iteration, full_content, tool_calls_chunks,
                   stream, stream_usage, turn_tool_calls, tc_pos, out, llm_stream_calls,
                   turn_scripts, turn_start, confirm_log>>
    /\ UNCHANGED <<usageVars, regVars>>

\* _call_llm_stream yields the next chunk and the loop body handles it
\* (agent_engine.py:204-214 and 54-82).
StreamChunk ==
    /\ pc = "stream"
    /\ stream # <<>>
    /\ LET chunk == Head(stream)
           d == DeltaIn(chunk)
       IN /\ stream_usage' = StreamUsage(stream_usage, chunk)
          /\ stream' = Tail(stream)
          /\ IF ~d.ok
             THEN /\ pc' = "raised"
                  /\ UNCHANGED <<full_content, out, tool_calls_chunks>>
             ELSE /\ pc' = pc
                  /\ IF Has(d.delta, "content")
                     THEN /\ full_content' = full_content \o d.delta["content"]
                          /\ out' = Append(out, StrToken(d.delta["content"]))
                     ELSE UNCHANGED <<full_content, out>>
                  /\ tool_calls_chunks' =
                        EngineAddFragments(tool_calls_chunks, ToolCallsDelta(d.delta))
    /\ UNCHANGED <<messages, has_callback, iteration, turn_tool_calls, tc_pos,
                   llm_stream_calls, turn_scripts, turn_start, confirm_log>>
    /\ UNCHANGED <<usageVars, regVars>>

\* The stream ends: _call_llm_stream records the usage and returns
\* (agent_engine.py:218-229), then the turn is closed (agent_engine.py:85-93
\* and 124-128).
StreamEnd ==
    /\ pc = "stream"
    /\ stream = <<>>
    /\ record_call([prompt_tokens |-> stream_usage.prompt_tokens,
                    completion_tokens |-> stream_usage.completion_tokens,
                    total_tokens |-> stream_usage.prompt_tokens
                                     + stream_usage.completion_tokens])
    /\ IF tool_calls_chunks # <<>>
       THEN /\ turn_tool_calls' = ToolCallList(tool_calls_chunks)
            /\ messages' = Append(messages, AssistantToolMessage(full_content, turn_tool_calls'))
            /\ tc_pos' = 1
            /\ pc' = "tools"
       ELSE /\ messages' = messages \o FinalMessages(full_content)
            /\ pc' = "done"
            /\ UNCHANGED <<turn_tool_calls, tc_pos>>
    /\ UNCHANGED <<has_callback, iteration, full_content, tool_calls_chunks, stream,
                   stream_usage, out, llm_stream_calls, turn_scripts, turn_start,
                   confirm_log>>
    /\ UNCHANGED regVars

\* The next tool call is announced to the caller (agent_engine.py:95-99);
\* the generator is suspended at that yield.
ToolAnnounce ==
    /\ pc = "tools"
    /\ tc_pos <= Len(turn_tool_calls)
    /\ out' = Append(out, StrToken(CallingToolText(turn_tool_calls[tc_pos].function.name)))
    /\ pc' = "confirm"
    /\ UNCHANGED <<messages, has_callback, iteration, full_content, tool_calls_chunks,
                   stream, stream_usage, turn_tool_calls, tc_pos, llm_stream_calls,
                   turn_scripts, turn_start, confirm_log>>
    /\ UNCHANGED <<usageVars, regVars>>

\* Resumed, the generator asks the confirmation callback, if there is one,
\* and dispatches the tool or records the denial (agent_engine.py:101-121).
ToolRun(answer) ==
    /\ pc = "confirm"
    /\ has_callback \/ answer
    /\ (has_callback /\ ~answer) => Denials < MaxDenials
    /\ LET tool_call == turn_tool_calls[tc_pos]
           func_name == tool_call.function.name
           func_args == tool_call.function.arguments
           denied == IF has_callback /\ ~answer
                     THEN <<ToolMessage(tool_call, DeniedText)>> ELSE <<>>
       IN /\ IF Dispatches(has_callback, answer)
             THEN /\ call_tool(func_name, func_args)
                  /\ messages' = messages \o denied \o
                        <<ToolMessage(tool_call,
                                      CallTool(tools, func_name, func_args).result)>>
             ELSE /\ messages' = messages \o denied
                  /\ UNCHANGED regVars
          /\ confirm_log' = Append(confirm_log,
                                   [id |-> tool_call.id,
                                    asked |-> has_callback,
                                    answer |-> answer,
                                    dispatched |-> call_log' # call_log])
    /\ tc_pos' = tc_pos + 1
    /\ pc' = "tools"
    /\ UNCHANGED <<has_callback, iteration, full_content, tool_calls_chunks, stream,
                   stream_usage, turn_tool_calls, out, llm_stream_calls, turn_scripts,
                   turn_start>>
    /\ UNCHANGED usageVars

\* Every tool call of the turn is handled: `continue` (agent_engine.py:122-123).
ToolsDone ==
    /\ pc = "tools"
    /\ tc_pos > Len(turn_tool_calls)
    /\ pc' = "loop"
    /\ UNCHANGED <<messages, has_callback, iteration, full_content, tool_calls_chunks,
                   stream, stream_usage, turn_tool_calls, tc_pos, out, llm_stream_calls,
                   turn_scripts, turn_start, confirm_log>>
    /\ UNCHANGED <<usageVars, regVars>>

(***************************************************************************)
(* ChatSession (chat_cli.py): the interactive session around one           *)
(* AgentEngine, its /clear command and its tool confirmation callback.     *)
(***************************************************************************)
MaxInputs == 2       \* inputs given to one chat session
MaxResets == 2       \* /clear commands given to one chat session
MaxChatTurns == 3    \* model turns of one chat session, over all its inputs
MaxConfirms == 3     \* _confirm_tool calls in one behaviour of SpecConfirm

\* chat_cli.py:207-212
SensitiveTools ==
    {"write_file", "replace_file_content", "multi_replace_file_content", "run_command"}

\* The tools _confirm_tool is asked about in the model.
ConfirmTools == {"read_file", "run_command", "write_file"}

\* What questionary.select(...).ask() returns: one of the four choices, or
\* None when the prompt is cancelled.
Choices == {"y", "n", "always", "session", None}

\* A plausible slip: the answer 'always' is not stored.
RememberNothing(perms, tool_name) == perms

\* self.permissions[tool_name] = "always" (chat_cli.py:243)
Remember(perms, tool_name) == perms \cup {tool_name}

\* ChatSession._confirm_tool(tool_name, tool_args) (chat_cli.py:204-245), as
\* a function of the permissions and of the choice the user would make: the
\* value returned, the permissions afterwards, and whether the user was asked.
ConfirmTool(perms, tool_name, choice) ==
    IF tool_name \notin SensitiveTools
    THEN [result |-> TRUE, permissions |-> perms, prompted |-> FALSE]
    ELSE IF tool_name \in perms
    THEN [result |-> TRUE, permissions |-> perms, prompted |-> FALSE]
    ELSE CASE choice = "y" -> [result |-> TRUE, permissions |-> perms, prompted |-> TRUE]
           [] choice = "n" -> [result |-> FALSE, permissions |-> perms, prompted |-> TRUE]
           [] choice \in {"always", "session"} ->
                [result |-> TRUE, permissions |-> Remember(perms, tool_name),
                 prompted |-> TRUE]
           [] OTHER -> [result |-> FALSE, permissions |-> perms, prompted |-> TRUE]

\* One call of _confirm_tool; `choice` is what the user would answer.
confirm_tool(tool_name, choice) ==
    LET r == ConfirmTool(permissions, tool_name, choice)
    IN /\ permissions' = r.permissions
       /\ perm_log' = Append(perm_log,
                             [tool |-> tool_name,
                              had_always |-> tool_name \in permissions,
                              prompted |-> r.prompted,
                              choice |-> choice,
                              result |-> r.result])
       /\ UNCHANGED <<chat_inputs, chat_resets>>

ChatInit ==
    /\ permissions = {}
    /\ perm_log = <<>>
    /\ chat_inputs = 0
    /\ chat_resets = 0

\* ChatSession.__init__ (chat_cli.py:29-49): the engine is built with the
\* hydrated system prompt and _confirm_tool as its callback.
ChatSession ==
    /\ AgentEngine(SystemPrompt, TRUE)
    /\ UNCHANGED chatVars

\* An input line that is no slash command: process_input_stream hands it to
\* run_stream (chat_cli.py:58-69 and 284-295).
ProcessInput(user_input) ==
    /\ chat_inputs < MaxInputs
    /\ RunStream(user_input)
    /\ chat_inputs' = chat_inputs + 1
    /\ UNCHANGED <<permissions, perm_log, chat_resets>>

\* The token loop of start() is over, by exhaustion or by an exception that
\* start() reports, and the session prompts again (chat_cli.py:278-303).
ChatPrompt ==
    /\ pc \in {"done", "raised"}
    /\ pc' = "idle"
    /\ UNCHANGED <<messages, has_callback, iteration, full_content, tool_calls_chunks,
                   stream, stream_usage, turn_tool_calls, tc_pos, out, llm_stream_calls,
                   turn_scripts, turn_start, confirm_log>>
    /\ UNCHANGED <<usageVars, regVars, chatVars>>

\* A plausible slip: /clear empties the conversation.
ClearedAll(msgs) == <<>>

\* [self.agent.messages[0]] (chat_cli.py:311)
Cleared(msgs) == <<msgs[1]>>

\* handle_slash_command("/clear") (chat_cli.py:305-312), at the prompt.
SlashClear ==
    /\ pc = "idle"
    /\ chat_resets < MaxResets
    /\ messages' = Cleared(messages)
    /\ chat_resets' = chat_resets + 1
    /\ UNCHANGED <<has_callback, pc, iteration, full_content, tool_calls_chunks,
                   stream, stream_usage, turn_tool_calls, tc_pos, out, llm_stream_calls,
                   turn_scripts, turn_start, confirm_log>>
    /\ UNCHANGED <<permissions, perm_log, chat_inputs>>
    /\ UNCHANGED <<usageVars, regVars>>

\* The engine, resumed after the announcement of a tool call, calls
\* _confirm_tool and acts on its answer (agent_engine.py:101-121).
ChatToolRun(choice) ==
    /\ pc = "confirm"
    /\ LET tool_name == turn_tool_calls[tc_pos].function.name
       IN /\ ToolRun(ConfirmTool(permissions, tool_name, choice).result)
          /\ confirm_tool(tool_name, choice)

(***************************************************************************)
(* The batch fan-out: ParallelDiffAnalyzer.analyze_all with analyze_batch  *)
(* and coordinate_message (parallel_analyzer.py:140-255), and              *)
(* AsyncLLMClient.complete_batch (async_llm.py:106-130).  The tasks are    *)
(* coroutines of one event loop; a step runs one of them from one await to *)
(* the next.                                                               *)
(***************************************************************************)
MaxBatches == 3      \* batches of one fan-out
MaxPermits == 2      \* max_concurrent ranges over 1..MaxPermits

\* How AsyncLLMClient.complete of a task ends: with a summary, with the
\* empty string as content, or with an exception.
TaskOutcomes == {"ok", "empty", "error"}

WaitingTask == [state |-> "waiting", summary |-> None, error |-> None]

\* The result of a task whose call has ended (parallel_analyzer.py:164-176;
\* for complete_batch the value or exception gather collects).
TaskResult(i, outcome) ==
    CASE outcome = "ok" ->
           [state |-> "done", summary |-> "summary " \o ToString(i), error |-> None]
      [] outcome = "empty" -> [state |-> "done", summary |-> "", error |-> None]
      [] OTHER -> [state |-> "done", summary |-> None, error |-> "ClientError"]

InFlight == { i \in 1..Len(tasks) : tasks[i].state = "in_flight" }

\* The provider calls in flight: those of the tasks and the coordinator's.
CallsInFlight == Cardinality(InFlight) + (IF batch_pc = "coordinating" THEN 1 ELSE 0)

\* A plausible slip: the call is made without awaiting the semaphore.
HasPermitAlways(sem) == TRUE

\* `async with semaphore` is entered only while a permit is free
\* (parallel_analyzer.py:153, async_llm.py:126).
HasPermit(sem) == sem > 0

\* A plausible slip: the results are not filtered.
ValidResultsAll(ts) == 1..Len(ts)

\* valid_results = [r for r in results if r["summary"]]
\* (parallel_analyzer.py:189)
ValidResults(ts) ==
    { i \in 1..Len(ts) : ts[i].summary # None /\ ts[i].summary # "" }

BatchInit ==
    /\ batch_pc = "idle"
    /\ batch_kind = "analyze_all"
    /\ max_concurrent = 1
    /\ semaphore = 0
    /\ tasks = <<>>
    /\ batch_requests = 0
    /\ coordinator_input = {}
    /\ batch_result = "none"

\* analyze_all with n batches (parallel_analyzer.py:207-243) or complete_batch
\* with n message lists (async_llm.py:123-130), up to the await of gather.
FanOut(kind, n, permits) ==
    /\ batch_pc = "idle"
    /\ batch_pc' = "fanout"
    /\ batch_kind' = kind
    /\ max_concurrent' = permits
    /\ semaphore' = permits
    /\ tasks' = [i \in 1..n |-> WaitingTask]
    /\ UNCHANGED <<batch_requests, coordinator_input, batch_result>>
    /\ UNCHANGED usageVars

\* Task i enters `async with semaphore` and issues its call.
TaskAcquire(i) ==
    /\ batch_pc = "fanout"
    /\ tasks[i].state = "waiting"
    /\ HasPermit(semaphore)
    /\ semaphore' = semaphore - 1
    /\ tasks' = [tasks EXCEPT ![i].state = "in_flight"]
    /\ batch_requests' = batch_requests + 1
    /\ UNCHANGED <<batch_pc, batch_kind, max_concurrent, coordinator_input, batch_result>>
    /\ UNCHANGED usageVars

\* The call of task i ends; the task keeps its result or its error and
\* leaves the semaphore.  AsyncLLMClient.complete (async_llm.py:71-104)
\* records nothing in the usage tracker.
TaskComplete(i, outcome) ==
    /\ batch_pc = "fanout"
    /\ tasks[i].state = "in_flight"
    /\ tasks' = [tasks EXCEPT ![i] = TaskResult(i, outcome)]
    /\ semaphore' = semaphore + 1
    /\ UNCHANGED <<batch_pc, batch_kind, max_concurrent, batch_requests,
                   coordinator_input, batch_result>>
    /\ UNCHANGED usageVars

\* gather returns: complete_batch returns the results; analyze_all goes on
\* to coordinate_message, which returns None when no result has a summary
\* and else issues the coordinator call (parallel_analyzer.py:243-253, 189-202).
Gather ==
    /\ batch_pc = "fanout"
    /\ \A i \in 1..Len(tasks) : tasks[i].state = "done"
    /\ IF batch_kind = "complete_batch"
       THEN /\ batch_pc' = "done"
            /\ batch_result' = "results"
            /\ UNCHANGED <<batch_requests, coordinator_input>>
       ELSE IF ValidResults(tasks) = {}
       THEN /\ batch_pc' = "done"
            /\ batch_result' = None
            /\ UNCHANGED <<batch_requests, coordinator_input>>
       ELSE /\ batch_pc' = "coordinating"
            /\ coordinator_input' = ValidResults(tasks)
            /\ batch_requests' = batch_requests + 1
            /\ UNCHANGED batch_result
    /\ UNCHANGED <<batch_kind, max_concurrent, semaphore, tasks>>
    /\ UNCHANGED usageVars

\* The coordinator call ends (parallel_analyzer.py:202-203): with the commit
\* message, or with an exception, which leaves analyze_all.
Coordinated(outcome) ==
    /\ batch_pc = "coordinating"
    /\ IF outcome = "error"
       THEN batch_pc' = "raised" /\ batch_result' = "raised"
       ELSE batch_pc' = "done" /\ batch_result' = "message"
    /\ UNCHANGED <<batch_kind, max_concurrent, semaphore, tasks, batch_requests,
                   coordinator_input>>
    /\ UNCHANGED usageVars

(***************************************************************************)
(* The file and command tools: read_file, write_file and run_command       *)
(* (tool_library.py:18-44, 182-207), over a working directory that holds   *)
(* a .env file.                                                            *)
(***************************************************************************)
MaxSecCalls == 3     \* calls of the tools in one behaviour

FilePaths == {".env", "config/.env", "notes.txt"}
Commands == {"env", "printenv", "cat .env", "ls"}
WriteContents == {"SECRET=123"}

\* The environment of the process, as `env` and `printenv` print it.
Environ == "API_KEY=k\n"

\* json.dumps of a string, on the characters of the model.
RECURSIVE JsonString(_)
JsonString(s) ==
    IF s = "" THEN ""
    ELSE (IF CharAt(s, 1) = "\n" THEN "\\n" ELSE CharAt(s, 1))
         \o JsonString(SubSeq(s, 2, Len(s)))

\* read_file: the content of the file, or the text of the exception
\* (tool_library.py:22-28).
ReadFile(files, filepath) ==
    IF files[filepath] # None
    THEN files[filepath]
    ELSE "Error reading file: [Errno 2] No such file or directory: '" \o filepath \o "'"

\* write_file: the file holds the content afterwards (tool_library.py:35-44).
WriteFile(files, filepath, content) ==
    [files |-> [files EXCEPT ![filepath] = content],
     result |-> "Successfully wrote to " \o filepath]

\* What the shell prints for a command of the model: `ls` lists the entries
\* of the working directory whose names do not start with a dot.
Stdout(files, command) ==
    CASE command \in {"env", "printenv"} -> Environ
      [] command = "cat .env" -> IF files[".env"] # None THEN files[".env"] ELSE ""
      [] OTHER -> (IF files["config/.env"] # None THEN "config\n" ELSE "")
                  \o (IF files["notes.txt"] # None THEN "notes.txt\n" ELSE "")

Stderr(files, command) ==
    IF command = "cat .env" /\ files[".env"] = None
    THEN "cat: .env: No such file or directory\n"
    ELSE ""

ReturnCode(files, command) == IF Stderr(files, command) = "" THEN 0 ELSE 1

\* run_command: subprocess.run(command, shell=True) and the JSON text of
\* its output (tool_library.py:186-203).
RunCommand(files, command) ==
    "{\"stdout\": \"" \o JsonString(Stdout(files, command))
    \o "\", \"stderr\": \"" \o JsonString(Stderr(files, command))
    \o "\", \"returncode\": " \o ToString(ReturnCode(files, command))
    \o (IF ReturnCode(files, command) # 0
        THEN ", \"error\": \"Command failed with exit code "
             \o ToString(ReturnCode(files, command)) \o "\"}"
        ELSE "}")

ToolsInit ==
    /\ fs = [f \in FilePaths |->
                CASE f = ".env" -> "SECRET=1" [] f = "notes.txt" -> "hello" [] OTHER -> None]
    /\ sec_log = <<>>

read_file(filepath) ==
    /\ sec_log' = Append(sec_log,
          [tool |-> "read_file", arg |-> filepath, result |-> ReadFile(fs, filepath),
           performed |-> TRUE])
    /\ UNCHANGED fs

write_file(filepath, content) ==
    /\ fs' = WriteFile(fs, filepath, content).files
    /\ sec_log' = Append(sec_log,
          [tool |-> "write_file", arg |-> filepath,
           result |-> WriteFile(fs, filepath, content).result, performed |-> TRUE])

run_command(command) ==
    /\ sec_log' = Append(sec_log,
          [tool |-> "run_command", arg |-> command, result |-> RunCommand(fs, command),
           performed |-> TRUE])
    /\ UNCHANGED fs

(***************************************************************************)
(* ResponseParser.parse_streaming_chunk and parse_sync_response            *)
(* (response_parser.py:89-164).  A chunk and a response are dicts with an  *)
(* optional "choices" list; the first choice holds an optional "delta"     *)
(* (chunk) or "message" (response) and an optional "finish_reason".        *)
(***************************************************************************)
MaxParses == 2       \* calls of the parser in one behaviour

\* ParsedChunk() (response_parser.py:16-23); raised is set when the call
\* ends with an exception instead of a ParsedChunk.
ParsedChunk ==
    [content |-> "", reasoning_content |-> "", tool_calls |-> <<>>,
     is_complete |-> FALSE, raised |-> FALSE]

\* A plausible slip: only a missing key is tested, so choices[0] on an
\* empty list raises IndexError.
NoChoicesAbsent(d) == "choices" \notin DOMAIN d

\* `if not choices` (response_parser.py:101-102, 140-141)
NoChoices(d) == "choices" \notin DOMAIN d \/ d["choices"] = <<>>

\* choices[0].get(key, {})
BodyOf(choice, key) == IF key \in DOMAIN choice THEN choice[key] ELSE <<>>

\* response_parser.py:108-122 and 146-160: content, reasoning content
\* (only for a reasoning model) and tool calls, each kept when truthy.
Extract(result, body, is_reasoning_model) ==
    [result EXCEPT
       !.content = IF Has(body, "content") THEN body["content"] ELSE @,
       !.reasoning_content =
          IF is_reasoning_model /\ Has(body, "reasoning_content")
          THEN clean_reasoning_content(body["reasoning_content"]) ELSE @,
       !.tool_calls =
          IF "tool_calls" \in DOMAIN body /\ body["tool_calls"] # <<>>
          THEN body["tool_calls"] ELSE @]

ParseStreamingChunk(chunk, is_reasoning_model) ==
    IF NoChoices(chunk) THEN ParsedChunk
    ELSE IF chunk["choices"] = <<>> THEN [ParsedChunk EXCEPT !.raised = TRUE]
    ELSE LET choice == chunk["choices"][1] IN
         [Extract(ParsedChunk, BodyOf(choice, "delta"), is_reasoning_model)
            EXCEPT !.is_complete = "finish_reason" \in DOMAIN choice]

ParseSyncResponse(response, is_reasoning_model) ==
    IF NoChoices(response) THEN ParsedChunk
    ELSE IF response["choices"] = <<>> THEN [ParsedChunk EXCEPT !.raised = TRUE]
    ELSE [Extract(ParsedChunk, BodyOf(response["choices"][1], "message"),
                  is_reasoning_model)
            EXCEPT !.is_complete = TRUE]

\* The deltas and messages of the model, and the dicts built around them.
ParseBodies ==
    { <<>>, [content |-> "Hi"], [content |-> ""],
      [reasoning_content |-> "<system>s</system>why"],
      [content |-> "Hi", reasoning_content |-> "why"],
      [tool_calls |-> <<[index |-> 0, id |-> "call_1", name |-> "read_file"]>>] }

ParseInputs(key) ==
    { [id |-> "cmpl"], [choices |-> <<>>], [choices |-> <<[finish_reason |-> "stop"]>>] }
    \cup { [choices |-> <<[k \in {key} |-> body]>>] : body \in ParseBodies }
    \cup { [choices |-> <<[k \in {key, "finish_reason"} |->
                             IF k = key THEN body ELSE "stop"]>>] :
             body \in {[content |-> "Hi"]} }

parse_streaming_chunk(chunk, is_reasoning_model) ==
    parse_log' = Append(parse_log,
        [fn |-> "parse_streaming_chunk", input |-> chunk,
         is_reasoning_model |-> is_reasoning_model,
         result |-> ParseStreamingChunk(chunk, is_reasoning_model)])

parse_sync_response(response, is_reasoning_model) ==
    parse_log' = Append(parse_log,
        [fn |-> "parse_sync_response", input |-> response,
         is_reasoning_model |-> is_reasoning_model,
         result |-> ParseSyncResponse(response, is_reasoning_model)])

(***************************************************************************)
(* Reading a server-sent-event stream: the line loop of                    *)
(* LLMClient.call_streaming (llm_client.py:186-220), of                    *)
(* AgentEngine._call_llm_stream (agent_engine.py:196-229) and of           *)
(* parse_stream (call_llm.py:23-34).  The first two keep the token counts  *)
(* of the usage fields and record them when the stream has ended.          *)
(***************************************************************************)
MaxLines == 3        \* lines of one stream

SseReaders == {"call_streaming", "_call_llm_stream", "parse_stream"}
DoneLine == "data: [DONE]"

\* The JSON text of a chunk that holds only a usage field.
UsageJson(p, c) ==
    "{\"usage\": {\"prompt_tokens\": " \o ToString(p)
    \o ", \"completion_tokens\": " \o ToString(c) \o "}}"

\* The lines a provider sends: two data lines with JSON objects, one with
\* trailing blanks, data lines with a usage field, an empty line, a comment,
\* an event line, a data line whose JSON is cut off, and the sentinel that
\* ends the stream.
SseLines ==
    { "data: {\"a\": 1}", "data: {\"b\": 2}  ", "", ": ping", "event: message",
      "data: {\"a\"", DoneLine }
    \cup { "data: " \o UsageJson(p, c) : p, c \in 0..MaxTok }

\* json.loads on the payloads of the model; surrounding blanks are allowed.
JsonDecode(text) ==
    CASE Strip(text) = "{\"a\": 1}" -> [ok |-> TRUE, value |-> [a |-> 1]]
      [] Strip(text) = "{\"b\": 2}" -> [ok |-> TRUE, value |-> [b |-> 2]]
      [] \E p, c \in 0..MaxTok : Strip(text) = UsageJson(p, c) ->
           LET pair == CHOOSE u \in (0..MaxTok) \X (0..MaxTok) :
                         Strip(text) = UsageJson(u[1], u[2])
           IN [ok |-> TRUE,
               value |-> [usage |-> [prompt_tokens |-> pair[1],
                                     completion_tokens |-> pair[2]]]]
      [] OTHER -> [ok |-> FALSE, value |-> <<>>]

\* A plausible slip: the slice starts one character late.
PayloadLate(line) == SubSeq(line, Len("data: ") + 2, Len(line))

\* line[len("data: "):] (llm_client.py:190), line[6:] (call_llm.py:31)
Payload(line) == SubSeq(line, Len("data: ") + 1, Len(line))

\* try: chunk = json.loads(...); yield chunk / except: continue
Decoded(text) == IF JsonDecode(text).ok THEN <<JsonDecode(text).value>> ELSE <<>>

\* What one line makes the reader yield.  call_streaming strips the line
\* first and passes over the sentinel; parse_stream takes the line as it is
\* and leaves its loop at the sentinel.
Yields(fn, line) ==
    IF fn = "call_streaming"
    THEN LET l == Strip(line) IN
         IF ~StartsWith(l, "data: ") THEN <<>>
         ELSE IF Payload(l) = "[DONE]" THEN <<>>
         ELSE Decoded(Payload(l))
    ELSE IF line = "" \/ ~StartsWith(line, "data: ") THEN <<>>
         ELSE IF line = DoneLine THEN <<>>
         ELSE Decoded(Payload(line))

\* A plausible slip: the counts of the usage fields are added up.
ClientStreamUsageSum(current, chunk) ==
    IF "usage" \in DOMAIN chunk
    THEN [prompt_tokens |-> current.prompt_tokens + PromptOrInput(chunk["usage"]),
          completion_tokens |-> current.completion_tokens + OutputDelta(chunk["usage"])]
    ELSE current

\* llm_client.py:198-205: a count of a usage field replaces the count kept
\* so far when it is positive.
ClientStreamUsage(current, chunk) ==
    IF "usage" \in DOMAIN chunk /\ DOMAIN chunk["usage"] # {}
    THEN [prompt_tokens |->
             IF PromptOrInput(chunk["usage"]) > 0
             THEN PromptOrInput(chunk["usage"]) ELSE current.prompt_tokens,
          completion_tokens |->
             IF OutputDelta(chunk["usage"]) > 0
             THEN OutputDelta(chunk["usage"]) ELSE current.completion_tokens]
    ELSE current

\* The counts after the chunks a line yielded.
UsageAfter(fn, current, chunks) ==
    IF chunks = <<>> \/ fn = "parse_stream" THEN current
    ELSE IF fn = "call_streaming" THEN ClientStreamUsage(current, chunks[1])
    ELSE StreamUsage(current, chunks[1])

\* The request is made and the reader starts on the response.
SseOpen(fn) ==
    /\ sse_pc = "idle"
    /\ sse_fn' = fn
    /\ sse_pc' = "open"
    /\ UNCHANGED <<sse_seen, sse_yielded, sse_usage>>
    /\ UNCHANGED usageVars

\* The next line arrives and the loop body runs on it; after the sentinel
\* the provider sends nothing more.
SseLine(line) ==
    /\ sse_pc = "open"
    /\ sse_seen' = Append(sse_seen, line)
    /\ sse_yielded' = sse_yielded \o Yields(sse_fn, line)
    /\ sse_usage' = UsageAfter(sse_fn, sse_usage, Yields(sse_fn, line))
    /\ sse_pc' = IF line = DoneLine THEN "closed" ELSE "open"
    /\ UNCHANGED sse_fn
    /\ UNCHANGED usageVars

\* The response has no more lines: the loop is over and the streaming calls
\* record the usage of the call (llm_client.py:211-220,
\* agent_engine.py:217-229); parse_stream records nothing.
SseEnd ==
    /\ sse_pc \in {"open", "closed"}
    /\ sse_pc' = "ended"
    /\ IF sse_fn = "parse_stream"
       THEN UNCHANGED usageVars
       ELSE record_call(StreamTotals(sse_usage.prompt_tokens, sse_usage.completion_tokens))
    /\ UNCHANGED <<sse_fn, sse_seen, sse_yielded, sse_usage>>

(***************************************************************************)
(* AgentEngine with its tool list, the retry loop of _call_llm_stream      *)
(* (agent_engine.py:150-159 and 172-238), and run_stream generators that   *)
(* do not run to their end.                                                *)
(***************************************************************************)
MaxTurns == 2        \* provider calls of one behaviour of SpecTurn
MaxStreamErrors == 1 \* broken connections of one turn

ToolLists == { {}, {"read_file"} }
SessionScripts == {"done", "bad_json", "bad_kwargs", "boom"}

\* The tools a script of the provider asks for.
ScriptTools(script) ==
    CASE script \in {"tool", "bad_json"} -> {"read_file"}
      [] script = "bad_kwargs" -> {"get_git_diff"}
      [] script = "boom" -> {"boom"}
      [] OTHER -> {}

\* body["tools"] (agent_engine.py:153-159): the definitions of every tool of
\* the registry when self.tools is not empty, and no "tools" key otherwise.
Advertised(engine_tools, registered) == IF engine_tools # {} THEN registered ELSE {}

\* AgentEngine(agent_name, system_prompt, tools=engine_tools, callback), in a
\* process whose configuration has core.llm_retries = retries.
NewEngine(engine_tools, callback, retries) ==
    /\ AgentEngine(SystemPrompt, callback)
    /\ self_tools' = engine_tools
    /\ stream_retries' = retries
    /\ UNCHANGED <<advertised, stream_attempt>>

\* A turn begins: the request body is built and the first attempt made.  The
\* provider asks only for tools whose definitions the body held.
CallLLMStream(script) ==
    /\ LoopHead(script)
    /\ advertised' = Advertised(self_tools, tools)
    /\ ScriptTools(script) \subseteq advertised'
    /\ stream_attempt' = 0
    /\ UNCHANGED <<self_tools, stream_retries>>

\* The connection breaks while the response is read: httpx.HTTPError leaves
\* the line loop (agent_engine.py:230-238).  While a retry is left the
\* request is made again and its response read from the start, with the
\* counts of the attempt at zero (lines 193-194); run_stream sees only more
\* chunks.  Else the exception leaves run_stream.
StreamError ==
    /\ pc = "stream"
    /\ stream_attempt < MaxStreamErrors
    /\ IF stream_attempt < stream_retries
       THEN /\ stream_attempt' = stream_attempt + 1
            /\ stream' = TurnScript(turn_scripts[Len(turn_scripts)], llm_stream_calls)
            /\ stream_usage' = [prompt_tokens |-> 0, completion_tokens |-> 0]
            /\ pc' = pc
       ELSE /\ pc' = "raised"
            /\ UNCHANGED <<stream_attempt, stream, stream_usage>>
    /\ UNCHANGED <<messages, has_callback, iteration, full_content, tool_calls_chunks,
                   turn_tool_calls, tc_pos, out, llm_stream_calls, turn_scripts,
                   turn_start, confirm_log>>
    /\ UNCHANGED <<self_tools, advertised, stream_retries>>
    /\ UNCHANGED <<usageVars, regVars>>

\* The caller stops iterating while the generator is suspended at the yield
\* of line 99 (in ChatSession.start a KeyboardInterrupt in the token loop,
\* chat_cli.py:290-298): the generator is closed where it stands.
Abandon ==
    /\ pc = "confirm"
    /\ pc' = "done"
    /\ UNCHANGED <<messages, has_callback, iteration, full_content, tool_calls_chunks,
                   stream, stream_usage, turn_tool_calls, tc_pos, out, llm_stream_calls,
                   turn_scripts, turn_start, confirm_log>>
    /\ UNCHANGED <<usageVars, regVars>>

\* self.tool_confirmation_callback(func_name, func_args) raises
\* (agent_engine.py:101-102): the exception leaves run_stream.
CallbackRaises ==
    /\ pc = "confirm"
    /\ has_callback
    /\ pc' = "raised"
    /\ UNCHANGED <<messages, has_callback, iteration, full_content, tool_calls_chunks,
                   stream, stream_usage, turn_tool_calls, tc_pos, out, llm_stream_calls,
                   turn_scripts, turn_start, confirm_log>>
    /\ UNCHANGED <<usageVars, regVars>>

(***************************************************************************)
(* Specifications                                                          *)
(***************************************************************************)
vars == <<usageVars, regVars, aggVars, cleanVars, llmVars, engineVars, extVars>>

Init ==
    /\ UsageInit
    /\ tools = LibraryTools /\ call_log = <<>> /\ exec_log = <<>>
    /\ AggInit
    /\ CleanInit
    /\ LLMInit
    /\ EngineInit
    /\ ChatInit
    /\ BatchInit
    /\ ToolsInit
    /\ self_tools = {} /\ advertised = {} /\ stream_attempt = 0 /\ stream_retries = DefaultRetries
    /\ parse_log = <<>>
    /\ sse_fn = "call_streaming" /\ sse_pc = "idle" /\ sse_seen = <<>> /\ sse_yielded = <<>>
    /\ sse_usage = [prompt_tokens |-> 0, completion_tokens |-> 0]

\* ---- SpecUsage: record_call and reset on the usage tracker
UsageRecord(usage) ==
    /\ Len(usage_history) < MaxRecords
    /\ record_call(usage)
    /\ UNCHANGED <<regVars, aggVars, cleanVars, llmVars, engineVars, extVars>>

UsageReset ==
    /\ reset
    /\ UNCHANGED <<regVars, aggVars, cleanVars, llmVars, engineVars, extVars>>

NextUsage ==
    \/ \E usage \in UsageDicts : UsageRecord(usage)
    \/ UsageReset

SpecUsage == Init /\ [][NextUsage]_vars

\* ---- SpecRegistry: register and call_tool on the tool registry
RegRegister(name) ==
    /\ register(name)
    /\ UNCHANGED <<usageVars, aggVars, cleanVars, llmVars, engineVars, extVars>>

RegCallTool(name, arguments_json) ==
    /\ Len(call_log) < MaxToolCalls
    /\ call_tool(name, arguments_json)
    /\ UNCHANGED <<usageVars, aggVars, cleanVars, llmVars, engineVars, extVars>>

NextRegistry ==
    \/ \E name \in Registrable : RegRegister(name)
    \/ \E name \in ToolNames, arguments_json \in ArgStrings :
          RegCallTool(name, arguments_json)

SpecRegistry == Init /\ [][NextRegistry]_vars

\* ---- SpecAgg: fragments fed to one ToolCallAggregator
\* The list of one add_chunk call holds one or two fragments.
FragLists ==
    UNION { [1..n -> Fragments] : n \in 1..2 }

AggAddChunk(tool_calls) ==
    /\ agg_total + Len(tool_calls) <= MaxFrags
    /\ add_chunk(tool_calls)
    /\ UNCHANGED <<usageVars, regVars, cleanVars, llmVars, engineVars, extVars>>

AggGetCompleteCalls ==
    /\ get_complete_calls
    /\ UNCHANGED <<usageVars, regVars, cleanVars, llmVars, engineVars, extVars>>

AggClear ==
    /\ clear
    /\ UNCHANGED <<usageVars, regVars, cleanVars, llmVars, engineVars, extVars>>

NextAgg ==
    \/ \E tool_calls \in FragLists : AggAddChunk(tool_calls)
    \/ AggGetCompleteCalls
    \/ AggClear

SpecAgg == Init /\ [][NextAgg]_vars

\* ---- SpecClean: clean_reasoning_content applied to a text, then to its result
NextClean ==
    \/ \E piece \in Pieces :
          CleanInput(piece) /\ UNCHANGED <<usageVars, regVars, aggVars, llmVars, engineVars, extVars>>
    \/ CleanPass /\ UNCHANGED <<usageVars, regVars, aggVars, llmVars, engineVars, extVars>>

SpecClean == Init /\ [][NextClean]_vars

\* ---- SpecRetry: blocking provider calls through the retry loop
RetryUsages == { u \in UsageDicts : \A k \in DOMAIN u : u[k] = 1 }

NextRetry ==
    \/ \E path \in Paths, resp_type \in {"text", None}, retries \in 0..MaxRetriesCfg :
          \E script \in ProviderScripts(retries) :
             /\ path # "call_llm_model" => resp_type = None
             /\ LLMCall(path, resp_type, retries, script)
             /\ UNCHANGED <<regVars, aggVars, cleanVars, engineVars, extVars>>
    \/ AttemptRetry /\ UNCHANGED <<regVars, aggVars, cleanVars, engineVars, extVars>>
    \/ AttemptFail /\ UNCHANGED <<regVars, aggVars, cleanVars, engineVars, extVars>>
    \/ \E body \in Bodies, usage \in RetryUsages \cup {StreamTotals(1, 1)} :
          /\ llm_path = "call_streaming" <=> usage = StreamTotals(1, 1)
          /\ AttemptSuccess(body, usage)
          /\ UNCHANGED <<regVars, aggVars, cleanVars, engineVars, extVars>>

SpecRetry == Init /\ [][NextRetry]_vars

\* ---- SpecEngine: an AgentEngine is constructed and run_stream called once
NextEngine ==
    \/ \E system_prompt \in {None, SystemPrompt}, callback \in BOOLEAN :
          AgentEngine(system_prompt, callback) /\ UNCHANGED <<aggVars, cleanVars, llmVars, extVars>>
    \/ RunStream(UserInput) /\ UNCHANGED <<aggVars, cleanVars, llmVars, extVars>>
    \/ \E script \in TurnScriptNames :
          LoopHead(script) /\ UNCHANGED <<aggVars, cleanVars, llmVars, extVars>>
    \/ SafetyLimit /\ UNCHANGED <<aggVars, cleanVars, llmVars, extVars>>
    \/ StreamRaises /\ UNCHANGED <<aggVars, cleanVars, llmVars, extVars>>
    \/ StreamChunk /\ UNCHANGED <<aggVars, cleanVars, llmVars, extVars>>
    \/ StreamEnd /\ UNCHANGED <<aggVars, cleanVars, llmVars, extVars>>
    \/ ToolAnnounce /\ UNCHANGED <<aggVars, cleanVars, llmVars, extVars>>
    \/ \E answer \in BOOLEAN :
          ToolRun(answer) /\ UNCHANGED <<aggVars, cleanVars, llmVars, extVars>>
    \/ ToolsDone /\ UNCHANGED <<aggVars, cleanVars, llmVars, extVars>>

SpecEngine == Init /\ [][NextEngine]_vars

\* ---- SpecChat: a chat session: inputs, runs of the engine, /clear.  The
\* session has at most MaxChatTurns model turns, fewer than max_iterations,
\* so no run of it comes to the safety limit.
ChatScripts == {"done", "tool"}

NextChat ==
    \/ ChatSession /\ UNCHANGED <<aggVars, cleanVars, llmVars, batchVars, secVars, newVars>>
    \/ ProcessInput(UserInput) /\ UNCHANGED <<aggVars, cleanVars, llmVars, batchVars, secVars, newVars>>
    \/ SlashClear /\ UNCHANGED <<aggVars, cleanVars, llmVars, batchVars, secVars, newVars>>
    \/ ChatPrompt /\ UNCHANGED <<aggVars, cleanVars, llmVars, batchVars, secVars, newVars>>
    \/ \E script \in ChatScripts :
          /\ Len(turn_scripts) < MaxChatTurns
          /\ LoopHead(script)
          /\ UNCHANGED <<aggVars, cleanVars, llmVars, extVars>>
    \/ StreamRaises /\ UNCHANGED <<aggVars, cleanVars, llmVars, extVars>>
    \/ StreamChunk /\ UNCHANGED <<aggVars, cleanVars, llmVars, extVars>>
    \/ StreamEnd /\ UNCHANGED <<aggVars, cleanVars, llmVars, extVars>>
    \/ ToolAnnounce /\ UNCHANGED <<aggVars, cleanVars, llmVars, extVars>>
    \/ ChatToolRun(None) /\ UNCHANGED <<aggVars, cleanVars, llmVars, batchVars, secVars, newVars>>
    \/ ToolsDone /\ UNCHANGED <<aggVars, cleanVars, llmVars, extVars>>

SpecChat == Init /\ [][NextChat]_vars

\* ---- SpecConfirm: calls of ChatSession._confirm_tool
NextConfirm ==
    \E tool_name \in ConfirmTools, choice \in Choices :
        /\ Len(perm_log) < MaxConfirms
        /\ confirm_tool(tool_name, choice)
        /\ UNCHANGED <<usageVars, regVars, aggVars, cleanVars, llmVars, engineVars,
                       batchVars, secVars, newVars>>

SpecConfirm == Init /\ [][NextConfirm]_vars

\* ---- SpecBatch: one fan-out with its fan-in
NextBatch ==
    \/ \E kind \in {"analyze_all", "complete_batch"}, n \in 1..MaxBatches,
          permits \in 1..MaxPermits :
          /\ FanOut(kind, n, permits)
          /\ UNCHANGED <<regVars, aggVars, cleanVars, llmVars, engineVars, chatVars, secVars, newVars>>
    \/ \E i \in 1..Len(tasks) :
          /\ TaskAcquire(i)
          /\ UNCHANGED <<regVars, aggVars, cleanVars, llmVars, engineVars, chatVars, secVars, newVars>>
    \/ \E i \in 1..Len(tasks), outcome \in TaskOutcomes :
          /\ TaskComplete(i, outcome)
          /\ UNCHANGED <<regVars, aggVars, cleanVars, llmVars, engineVars, chatVars, secVars, newVars>>
    \/ Gather /\ UNCHANGED <<regVars, aggVars, cleanVars, llmVars, engineVars, chatVars, secVars, newVars>>
    \/ \E outcome \in {"ok", "error"} :
          /\ Coordinated(outcome)
          /\ UNCHANGED <<regVars, aggVars, cleanVars, llmVars, engineVars, chatVars, secVars, newVars>>

SpecBatch == Init /\ [][NextBatch]_vars

\* ---- SpecTools: calls of the file and command tools
NextTools ==
    \/ \E filepath \in FilePaths :
          /\ Len(sec_log) < MaxSecCalls
          /\ read_file(filepath)
          /\ UNCHANGED <<usageVars, regVars, aggVars, cleanVars, llmVars, engineVars,
                         chatVars, batchVars, newVars>>
    \/ \E filepath \in FilePaths, content \in WriteContents :
          /\ Len(sec_log) < MaxSecCalls
          /\ write_file(filepath, content)
          /\ UNCHANGED <<usageVars, regVars, aggVars, cleanVars, llmVars, engineVars,
                         chatVars, batchVars, newVars>>
    \/ \E command \in Commands :
          /\ Len(sec_log) < MaxSecCalls
          /\ run_command(command)
          /\ UNCHANGED <<usageVars, regVars, aggVars, cleanVars, llmVars, engineVars,
                         chatVars, batchVars, newVars>>

SpecTools == Init /\ [][NextTools]_vars

\* ---- SpecParser: calls of the two parse functions
NextParser ==
    /\ Len(parse_log) < MaxParses
    /\ \E is_reasoning_model \in BOOLEAN :
          \/ \E chunk \in ParseInputs("delta") :
                parse_streaming_chunk(chunk, is_reasoning_model)
          \/ \E response \in ParseInputs("message") :
                parse_sync_response(response, is_reasoning_model)
    /\ UNCHANGED <<usageVars, regVars, aggVars, cleanVars, llmVars, engineVars,
                   chatVars, batchVars, secVars, turnVars, sseVars>>

SpecParser == Init /\ [][NextParser]_vars

\* ---- SpecSSE: one stream of lines read by one of the readers
NextSSE ==
    \/ \E fn \in SseReaders :
          /\ SseOpen(fn)
          /\ UNCHANGED <<regVars, aggVars, cleanVars, llmVars, engineVars,
                         chatVars, batchVars, secVars, turnVars, parseVars>>
    \/ \E line \in SseLines :
          /\ Len(sse_seen) < MaxLines
          /\ SseLine(line)
          /\ UNCHANGED <<regVars, aggVars, cleanVars, llmVars, engineVars,
                         chatVars, batchVars, secVars, turnVars, parseVars>>
    \/ /\ SseEnd
       /\ UNCHANGED <<regVars, aggVars, cleanVars, llmVars, engineVars,
                      chatVars, batchVars, secVars, turnVars, parseVars>>

SpecSSE == Init /\ [][NextSSE]_vars

\* ---- SpecTurn: an engine with a tool list, used for successive run_stream
\* calls of at most MaxTurns turns in all; the stream of a turn may break
\* and be retried, and a run may be left before its end.
turnFrame == <<aggVars, cleanVars, llmVars, batchVars, secVars, parseVars, sseVars>>

NextTurn ==
    \/ pc = "new" /\ RegRegister("boom")
    \/ \E engine_tools \in ToolLists, callback \in BOOLEAN, retries \in {0, DefaultRetries} :
          NewEngine(engine_tools, callback, retries) /\ UNCHANGED <<turnFrame, chatVars>>
    \/ ProcessInput(UserInput) /\ UNCHANGED <<turnFrame, turnVars>>
    \/ ChatPrompt /\ UNCHANGED <<turnFrame, turnVars>>
    \/ \E script \in SessionScripts :
          /\ Len(turn_scripts) < MaxTurns
          /\ CallLLMStream(script)
          /\ UNCHANGED <<turnFrame, chatVars>>
    \/ StreamError /\ UNCHANGED <<turnFrame, chatVars>>
    \/ StreamChunk /\ UNCHANGED <<turnFrame, chatVars, turnVars>>
    \/ StreamEnd /\ UNCHANGED <<turnFrame, chatVars, turnVars>>
    \/ ToolAnnounce /\ UNCHANGED <<turnFrame, chatVars, turnVars>>
    \/ \E answer \in BOOLEAN : ToolRun(answer) /\ UNCHANGED <<turnFrame, chatVars, turnVars>>
    \/ ToolsDone /\ UNCHANGED <<turnFrame, chatVars, turnVars>>
    \/ Abandon /\ UNCHANGED <<turnFrame, chatVars, turnVars>>
    \/ CallbackRaises /\ UNCHANGED <<turnFrame, chatVars, turnVars>>

SpecTurn == Init /\ [][NextTurn]_vars

(***************************************************************************)
(* Claims                                                                  *)
(***************************************************************************)
AllOpenAI(history) == \A i \in 1..Len(history) : IsOpenAIUsage(history[i])

\* C9: starting from a fresh or reset tracker, after any sequence of n
\* record_call operations whose usage holds prompt_tokens p_i and
\* completion_tokens c_i, total_calls is n, total_input_tokens is the sum of
\* the p_i and total_output_tokens is the sum of the c_i.
C9_UsageAdditive ==
    AllOpenAI(usage_history) =>
        /\ total_calls = Len(usage_history)
        /\ total_input_tokens =
             SumSeq([i \in 1..Len(usage_history) |-> usage_history[i]["prompt_tokens"]])
        /\ total_output_tokens =
             SumSeq([i \in 1..Len(usage_history) |-> usage_history[i]["completion_tokens"]])

\* Two calls recorded after a reset, with non-zero counts: the totals are sums.
C9_Witness ==
    /\ usage_was_reset
    /\ Len(usage_history) = 2
    /\ AllOpenAI(usage_history)
    /\ usage_history[1]["prompt_tokens"] = 1
    /\ usage_history[2]["prompt_tokens"] = 1
    /\ usage_history[2]["completion_tokens"] = 1
    /\ total_input_tokens = 2
    /\ total_calls = 2


\* C8: call_tool with a name that is not registered returns an error string
\* and never raises, for every arguments_json value, and invokes no tool
\* executable.
C8_UnregisteredToolIsError ==
    \A i \in 1..Len(call_log) :
        ~call_log[i].registered =>
            /\ ~call_log[i].raised
            /\ StartsWith(call_log[i].result, "Error")
            /\ call_log[i].executed = 0

\* An unregistered name has been called with arguments that are valid JSON
\* and with arguments that are not, next to a registered call that ran a tool.
C8_Witness ==
    /\ \E i \in 1..Len(call_log) :
          ~call_log[i].registered /\ call_log[i].args = ArgsCut
             /\ call_log[i].result = "Error: Tool nope not found."
    /\ \E i \in 1..Len(call_log) :
          ~call_log[i].registered /\ call_log[i].args = ArgsFile
    /\ exec_log = <<>>


\* The delta a fragment carries for key k ("" when it carries none).
DeltaOf(tc, k) == IF k \in DOMAIN tc THEN tc[k] ELSE ""

\* The deltas for key k of the fragments of index idx, in arrival order, joined.
Joined(fed, idx, k) ==
    LET mine == SelectSeq(fed, LAMBDA tc : IndexOf(tc) = idx)
    IN Concat([i \in 1..Len(mine) |-> DeltaOf(mine[i], k)])

IndexesOf(fed) == { IndexOf(fed[i]) : i \in 1..Len(fed) }

\* C5: for any sequence of tool-call fragments sharing one index, add_chunk
\* followed by get_complete_calls yields one call whose name and arguments
\* are the exact concatenation of the fragments' name and arguments deltas in
\* arrival order, however many fragments there are and whichever of id, name
\* and arguments each carries; fragments of another index in between go to
\* their own slot.
C5_AggregatorConcatenates ==
    /\ Len(agg_calls) = Cardinality(IndexesOf(agg_seen))
    /\ \A idx \in IndexesOf(agg_seen) :
          IndexesOf(agg_seen) = {idx} =>
             /\ agg_calls[1].function.name = Joined(agg_seen, idx, "name")
             /\ agg_calls[1].function.arguments = Joined(agg_seen, idx, "arguments")
    /\ \A idx \in IndexesOf(agg_fed) :
          /\ Cardinality({ i \in 1..Len(agg_chunks) : agg_chunks[i].index = idx }) = 1
          /\ agg_chunks[SlotPos(agg_chunks, idx)].name = Joined(agg_fed, idx, "name")
          /\ agg_chunks[SlotPos(agg_chunks, idx)].arguments =
                Joined(agg_fed, idx, "arguments")

\* Three fragments of one index, the first with id and a name delta, the
\* second with a name and an arguments delta, the third with arguments only,
\* have been reassembled into name read_file, arguments {}{}.
C5_Witness ==
    /\ Len(agg_seen) = 3
    /\ IndexesOf(agg_seen) = {0}
    /\ DOMAIN agg_seen[1] = {"id", "name"}
    /\ DOMAIN agg_seen[2] = {"name", "arguments"}
    /\ DOMAIN agg_seen[3] = {"arguments"}
    /\ Len(agg_calls) = 1
    /\ agg_calls[1].id = "call_1"
    /\ agg_calls[1].function.name = "read_file"
    /\ agg_calls[1].function.arguments = "{}{}"


\* The text begins with a supported artifact: one of the patterns matches.
BeginsWithArtifact(s) ==
    \/ MatchAt(s, 1, "<|system|>") /\ Find(s, "<|/system|>", Len("<|system|>") + 1) # 0
    \/ MatchAt(s, 1, "<system>") /\ Find(s, "</system>", Len("<system>") + 1) # 0
    \/ MatchAt(s, 1, "[SYSTEM]") /\ Find(s, "[/SYSTEM]", Len("[SYSTEM]") + 1) # 0
    \/ MatchAt(s, 1, "System:") /\ Find(s, "\n\n", Len("System:") + 1) # 0

\* C6: clean_reasoning_content is idempotent: for every input text built
\* from the supported artifact patterns, several artifacts in a row or of
\* different styles one after another included, clean(clean(x)) = clean(x).
C6_CleanIdempotent ==
    (clean_passes = 2 /\ BeginsWithArtifact(clean_input)) => clean_text = clean_first

\* C7: clean_reasoning_content is a no-op on a text that contains none of
\* the supported artifact patterns: clean(x) = x.
C7_CleanNoOpWithoutArtifact ==
    (clean_passes >= 1 /\ ~ContainsArtifact(clean_input)) => clean_first = clean_input


\* The provider answers 429 to the first k requests and 200 to request k + 1.
RateLimitedThenOk(script, k) ==
    /\ k + 1 <= Len(script)
    /\ \A i \in 1..k : script[i] = "429"
    /\ script[k + 1] = "200"

\* C10: if the provider answers HTTP 429 on the first k attempts (k <= the
\* configured retry count) and 200 on attempt k + 1, the call returns the
\* successful response after exactly k + 1 requests and exactly k backoff
\* sleeps of 2, 4, ..., 2^k seconds, in that order.
C10_RetryOn429 ==
    \A k \in 0..max_retries :
        (llm_pc = "done" /\ RateLimitedThenOk(provider, k)) =>
            /\ llm_result \in {"data", "text", "no_choices", "stream_end"}
            /\ Len(requests) = k + 1
            /\ sleeps = [i \in 1..k |-> 2 ^ i]

\* 429, 429, 200 with retry count 3: call_llm_model returned the text of the
\* third response after sleeping 2 s and then 4 s.
C10_Witness ==
    /\ llm_pc = "done"
    /\ llm_path = "call_llm_model"
    /\ max_retries = 3
    /\ RateLimitedThenOk(provider, 2)
    /\ requests = <<"429", "429", "200">>
    /\ sleeps = <<2, 4>>
    /\ llm_result = "text"

\* No request of the call is answered with a 200.
EveryAttemptFails(script) == \A i \in 1..Len(script) : script[i] # "200"

\* C11: when every attempt of a provider call fails (429, another error
\* status, or a transport error) the call makes at most retry count + 1
\* requests and then fails to its caller: call_sync and the streaming calls
\* raise, call_llm_model returns an error-shaped value; it never ends as a
\* success, and nothing is recorded as a completed call.
C11_ExhaustedRetriesFail ==
    (llm_pc # "idle" /\ EveryAttemptFails(provider)) =>
        /\ Len(requests) <= max_retries + 1
        /\ total_calls = 0
        /\ llm_pc = "done" =>
              /\ Len(requests) = max_retries + 1
              /\ Len(sleeps) = max_retries
              /\ llm_result = IF llm_path = "call_llm_model"
                              THEN "error_dict" ELSE "raised"

\* A streaming call with retry count 2 met a 429, a transport error and a
\* 500, and raised after the third request.
C11_Witness ==
    /\ llm_pc = "done"
    /\ llm_path = "call_streaming"
    /\ max_retries = 2
    /\ requests = <<"429", "transport_error", "500">>
    /\ llm_result = "raised"

(***************************************************************************)
(* Claims about AgentEngine (SpecEngine)                                   *)
(***************************************************************************)
RequestsTools(script) == script \in {"tool", "tools2"}
Warned == \E i \in 1..Len(out) : out[i] = StrToken(SafetyText)
ToolEntries(id) ==
    { i \in 1..Len(messages) :
         messages[i].role = "tool" /\ messages[i].tool_call_id = id }

\* C1: one run_stream makes at most 10 model-turn calls of the provider
\* (invocations of _call_llm_stream, whatever each one streams back); when all
\* 10 turns requested tools the run ends on the 'Safety Limit reached' token,
\* and once that token is yielded the number of provider calls is 10 for good.
C1_SafetyLimit ==
    /\ llm_stream_calls <= max_iterations
    /\ (/\ pc = "done"
        /\ Len(turn_scripts) = max_iterations
        /\ \A i \in 1..Len(turn_scripts) : RequestsTools(turn_scripts[i]))
       => (out # <<>> /\ out[Len(out)] = StrToken(SafetyText))
    /\ Warned => (pc = "done" /\ llm_stream_calls = max_iterations)

C1_Witness ==
    /\ pc = "done"
    /\ llm_stream_calls = max_iterations
    /\ \A i \in 1..Len(turn_scripts) : RequestsTools(turn_scripts[i])
    /\ Warned

\* C2: every tool call the confirmation callback answered false has exactly
\* one tool-role history entry with its tool_call_id, that entry holds the
\* fixed denial text, and call_tool was not invoked for the call.
C2_DeniedToolCall ==
    \A i \in 1..Len(confirm_log) :
        (confirm_log[i].asked /\ ~confirm_log[i].answer) =>
            /\ Cardinality(ToolEntries(confirm_log[i].id)) = 1
            /\ \A m \in ToolEntries(confirm_log[i].id) : messages[m].content = DeniedText
            /\ ~confirm_log[i].dispatched

C2_Witness ==
    /\ pc = "done"
    /\ \E i \in 1..Len(confirm_log) :
          /\ confirm_log[i].asked
          /\ ~confirm_log[i].answer
          /\ ToolEntries(confirm_log[i].id) # {}
    /\ \E i \in 1..Len(confirm_log) : confirm_log[i].answer

\* C3: after a turn with one tool call and a final turn with the content
\* "Done", run(user_input) returns exactly "Done".
C3_RunReturnsDone ==
    (pc = "done" /\ turn_scripts = <<"tool", "done">>) => RunResult(out) = "Done"

Roles == [i \in 1..Len(messages) |-> messages[i].role]
Seeded == messages # <<>> /\ messages[1].role = "system"
Prefix == IF Seeded THEN <<"system">> ELSE <<>>
LastTurn == turn_scripts[Len(turn_scripts)]
C4_History ==
    /\ (pc = "done" /\ turn_scripts = <<"tool", "done">>) =>
          LET n == Len(Prefix)
          IN /\ Roles = Prefix \o <<"user", "assistant", "tool", "assistant">>
             /\ "tool_calls" \in DOMAIN messages[n + 2]
             /\ Len(messages[n + 2].tool_calls) = 1
             /\ messages[n + 3].tool_call_id = messages[n + 2].tool_calls[1].id
             /\ messages[n + 4] = [role |-> "assistant", content |-> "Done"]
    /\ (pc = "done" /\ turn_scripts # <<>> /\ ~RequestsTools(LastTurn)) =>
          IF full_content # ""
          THEN /\ Len(messages) = turn_start + 1
               /\ messages[Len(messages)] =
                     [role |-> "assistant", content |-> full_content]
          ELSE Len(messages) = turn_start

\* C4: after a run of one tool-call turn and one content-only turn the history
\* is system (if a prompt is configured), user, assistant with the tool call,
\* tool with the matching tool_call_id, assistant with the content; a final
\* turn without tool calls appends one assistant message if it has content and
\* none otherwise, and after it nothing more happens in the run.
C4_HistoryOrder ==
    /\ []C4_History
    /\ [][pc = "done" => UNCHANGED <<messages, llm_stream_calls, pc>>]_vars

C4_Witness ==
    /\ pc = "done"
    /\ turn_scripts = <<"tool", "done">>
    /\ Seeded
    /\ Len(messages) = 5

\* The assistant message at position j issued a tool call with this id.
Issues(j, id) ==
    /\ messages[j].role = "assistant"
    /\ "tool_calls" \in DOMAIN messages[j]
    /\ \E k \in 1..Len(messages[j].tool_calls) : messages[j].tool_calls[k].id = id

\* C13: in every reachable history each tool-role message comes after an
\* assistant message whose tool_calls holds a call with the tool message's
\* tool_call_id, with no user or system message between the two.
C13_ToolFollowsAssistant ==
    \A i \in 1..Len(messages) :
        messages[i].role = "tool" =>
            \E j \in 1..(i - 1) :
                /\ Issues(j, messages[i].tool_call_id)
                /\ \A m \in (j + 1)..(i - 1) : messages[m].role \notin {"user", "system"}

\* A turn with two tool calls is over: its two tool messages follow the
\* assistant message, the second one right after the first, and the first of
\* them is a denial.
C13_Witness ==
    /\ pc = "done"
    /\ \E i \in 2..(Len(messages) - 1) :
          /\ messages[i - 1].role = "assistant"
          /\ messages[i].role = "tool" /\ messages[i].content = DeniedText
          /\ messages[i + 1].role = "tool"
          /\ messages[i + 1].tool_call_id # messages[i].tool_call_id

\* C14: for each tool call of a turn run_stream yields a structured event
\* {type: "tool_call", name, args}, before the confirmation callback is
\* invoked and before the tool runs: when the generator is suspended between
\* the announcement of a call and its confirmation, the last token yielded is
\* that event.
C14_ToolCallEvent ==
    pc = "confirm" =>
        LET event == out[Len(out)]
        IN /\ DOMAIN event = {"type", "name", "args"}
           /\ event.type = "tool_call"
           /\ event.name = turn_tool_calls[tc_pos].function.name
           /\ event.args = turn_tool_calls[tc_pos].function.arguments

(***************************************************************************)
(* Claims about ChatSession (SpecChat, SpecConfirm)                        *)
(***************************************************************************)
IsPrefix(a, b) == Len(a) <= Len(b) /\ SubSeq(b, 1, Len(a)) = a

Earlier(i) == { j \in 1..(i - 1) : perm_log[j].tool = perm_log[i].tool }

\* C19: _confirm_tool approves a tool that is not sensitive without
\* prompting; for a sensitive tool it returns the user's answer (yes: true,
\* no: false); once the user answered 'always' for a tool, every later
\* confirmation of that tool returns true without a prompt, whatever the
\* user would answer.
C19_ConfirmTool ==
    \A i \in 1..Len(perm_log) :
        LET e == perm_log[i]
        IN /\ e.tool \notin SensitiveTools => (e.result /\ ~e.prompted)
           /\ (e.prompted /\ e.choice = "y") => e.result
           /\ (e.prompted /\ e.choice = "n") => ~e.result
           /\ (\E j \in Earlier(i) : perm_log[j].prompted /\ perm_log[j].choice = "always")
                 => (e.result /\ ~e.prompted)
           /\ (e.tool \in SensitiveTools
               /\ \A j \in Earlier(i) : perm_log[j].choice \notin {"always", "session"})
                 => e.prompted

\* run_command was denied, then allowed for good, then asked about once more
\* with a user who would say no.
C19_Witness ==
    /\ Len(perm_log) = 3
    /\ \A i \in 1..3 : perm_log[i].tool = "run_command"
    /\ perm_log[1].choice = "n" /\ ~perm_log[1].result
    /\ perm_log[2].choice = "always" /\ perm_log[2].result
    /\ perm_log[3].choice = "n" /\ perm_log[3].result /\ ~perm_log[3].prompted

(***************************************************************************)
(* Claims about the batch fan-out (SpecBatch)                              *)
(***************************************************************************)
\* C15: in the batch fan-out the number of provider calls in flight never
\* exceeds the configured number of permits, however many batches there are.
C15_BoundedConcurrency == CallsInFlight <= max_concurrent

\* Three batches over two permits: two calls are in flight and the third
\* task waits.
C15_Witness ==
    /\ Len(tasks) = 3
    /\ max_concurrent = 2
    /\ Cardinality(InFlight) = 2
    /\ \E i \in 1..3 : tasks[i].state = "waiting"

AllTasksDone == \A i \in 1..Len(tasks) : tasks[i].state = "done"
Failed == { i \in 1..Len(tasks) : tasks[i].state = "done" /\ tasks[i].error # None }
Succeeded ==
    { i \in 1..Len(tasks) : tasks[i].state = "done" /\ tasks[i].summary \notin {None, ""} }

CompletedBatchCalls ==
    Cardinality({ i \in 1..Len(tasks) : tasks[i].state = "done" /\ tasks[i].error = None })
    + (IF batch_result = "message" THEN 1 ELSE 0)

\* C17: every successfully completed provider call, in any context, adds
\* exactly one to total_calls of the process-wide usage tracker; here for
\* the calls of the batch fan-out and fan-in.
C17_BatchCallsCounted == total_calls = CompletedBatchCalls

(***************************************************************************)
(* Claims about the file and command tools (SpecTools)                     *)
(***************************************************************************)
\* The path names a file called .env, in any directory.
IsEnvPath(filepath) ==
    \/ filepath = ".env"
    \/ Len(filepath) >= 5 /\ SubSeq(filepath, Len(filepath) - 4, Len(filepath)) = "/.env"

\* The call reaches for the secrets of the environment.
TouchesSecrets(call) ==
    \/ call.tool \in {"read_file", "write_file"} /\ IsEnvPath(call.arg)
    \/ call.tool = "run_command" /\ call.arg \in {"env", "printenv", "cat .env"}

\* "prohibited" in result.lower()
Prohibited(result) == \E i \in 1..Len(result) : MatchAt(result, i, "prohibited")

\* C18: read_file and write_file on a path whose file name is .env, and
\* run_command for env, printenv or a command that reads .env, return a
\* result that contains 'prohibited' and do not perform the operation; a
\* harmless command such as ls is not refused.
C18_SecretsRefused ==
    \A k \in 1..Len(sec_log) :
        IF TouchesSecrets(sec_log[k])
        THEN Prohibited(sec_log[k].result) /\ ~sec_log[k].performed
        ELSE sec_log[k].tool = "run_command" => ~Prohibited(sec_log[k].result)

(***************************************************************************)
(* Claims about the order of the aggregated tool calls (SpecAgg)           *)
(***************************************************************************)
\* The slots in ascending order of their fragment index.
RECURSIVE ByIndex(_)
ByIndex(chunks) ==
    IF chunks = <<>> THEN <<>>
    ELSE LET m == CHOOSE i \in 1..Len(chunks) :
                     \A j \in 1..Len(chunks) : chunks[i].index <= chunks[j].index
         IN <<chunks[m]>>
            \o ByIndex(SubSeq(chunks, 1, m - 1) \o SubSeq(chunks, m + 1, Len(chunks)))

\* C20: get_complete_calls returns all accumulated slots in ascending order
\* of the fragment index, also when the first fragment of a higher index
\* arrived before the first fragment of a lower index.
C20_IndexOrder ==
    [][get_complete_calls => agg_calls' = GetCompleteCalls(ByIndex(agg_chunks))]_vars

(***************************************************************************)
(* Claims about the monotonicity of the usage totals (SpecUsage)           *)
(***************************************************************************)
\* C26: for every usage record with non-negative token counts, whichever of
\* the supported keys it carries, record_call never decreases total_calls,
\* total_input_tokens or total_output_tokens; only reset sets them back.
C26_NeverDecreases ==
    [][(\E usage \in UsageDicts : record_call(usage)) =>
          /\ total_calls' >= total_calls
          /\ total_input_tokens' >= total_input_tokens
          /\ total_output_tokens' >= total_output_tokens]_vars

(***************************************************************************)
(* Claims about the ResponseParser (SpecParser)                            *)
(***************************************************************************)
\* C24: parse_sync_response returns a ParsedChunk whose is_complete is true
\* for every response, including one whose choices list is missing or empty.
C24_SyncIsComplete ==
    \A k \in 1..Len(parse_log) :
        parse_log[k].fn = "parse_sync_response" =>
            ~parse_log[k].result.raised /\ parse_log[k].result.is_complete

\* The delta of a parsed chunk: empty when the chunk has no first choice or
\* the choice no delta.
DeltaOfChunk(chunk) ==
    IF NoChoices(chunk) THEN <<>> ELSE BodyOf(chunk["choices"][1], "delta")

\* C25: parse_streaming_chunk never raises on missing fields: for a chunk
\* without choices, with an empty choices list, with a first choice without
\* delta, or with a delta that lacks content, reasoning_content or
\* tool_calls, the ParsedChunk it returns has the corresponding fields empty;
\* reasoning content is extracted only by the parser of a reasoning model.
C25_StreamingChunkTotal ==
    \A k \in 1..Len(parse_log) :
        parse_log[k].fn = "parse_streaming_chunk" =>
            LET r == parse_log[k].result
                d == DeltaOfChunk(parse_log[k].input)
            IN /\ ~r.raised
               /\ "content" \notin DOMAIN d => r.content = ""
               /\ "tool_calls" \notin DOMAIN d => r.tool_calls = <<>>
               /\ "reasoning_content" \notin DOMAIN d => r.reasoning_content = ""
               /\ ~parse_log[k].is_reasoning_model => r.reasoning_content = ""
               /\ "content" \in DOMAIN d => r.content = d["content"]
               /\ (parse_log[k].is_reasoning_model /\ "reasoning_content" \in DOMAIN d)
                     => r.reasoning_content = clean_reasoning_content(d["reasoning_content"])

\* A chunk with an empty choices list was parsed, and a reasoning delta was
\* parsed once by each kind of parser: only the reasoning one extracted it.
C25_Witness ==
    /\ Len(parse_log) = 2
    /\ parse_log[1].fn = "parse_streaming_chunk"
    /\ parse_log[1].input = [choices |-> <<>>]
    /\ parse_log[1].result = ParsedChunk
    /\ parse_log[2].fn = "parse_streaming_chunk"
    /\ parse_log[2].is_reasoning_model
    /\ parse_log[2].result.reasoning_content = "why"

(***************************************************************************)
(* Claims about the reading of a stream (SpecSSE)                          *)
(***************************************************************************)
\* The JSON object a line of the form `data: <json>` carries, if any.
ObjectOf(line) ==
    CASE line = "data: {\"a\": 1}" -> <<[a |-> 1]>>
      [] line = "data: {\"b\": 2}  " -> <<[b |-> 2]>>
      [] \E p, c \in 0..MaxTok : line = "data: " \o UsageJson(p, c) ->
           <<[usage |-> CHOOSE u \in [{"prompt_tokens", "completion_tokens"} -> 0..MaxTok] :
                           line = "data: " \o UsageJson(u["prompt_tokens"],
                                                        u["completion_tokens"])]>>
      [] OTHER -> <<>>

RECURSIVE ObjectsOf(_)
ObjectsOf(lines) ==
    IF lines = <<>> THEN <<>> ELSE ObjectOf(Head(lines)) \o ObjectsOf(Tail(lines))

\* C23: the chunks a streaming call yields are exactly the decoded JSON
\* objects of the lines of the form `data: <json>`, in the order received:
\* other lines and the `data: [DONE]` sentinel yield nothing, and a data line
\* whose payload is no valid JSON is skipped while the lines after it are
\* still processed.
C23_YieldsDecodedDataLines == sse_yielded = ObjectsOf(sse_seen)

\* A cut-off data line, then a comment, then a good data line: one chunk.
C23_Witness ==
    /\ sse_seen = <<"data: {\"a\"", ": ping", "data: {\"a\": 1}">>
    /\ sse_yielded = <<[a |-> 1]>>

(***************************************************************************)
(* Claims about chunks without choices (SpecEngine)                        *)
(***************************************************************************)
\* The chunk has no first choice: the key is absent or the list is empty.
WithoutChoices(chunk) == "choices" \notin DOMAIN chunk \/ chunk["choices"] = <<>>

\* C30: run_stream does not fail on a streamed chunk whose choices list is
\* empty or absent (such as a usage-only chunk): the chunk adds no content
\* token and no tool-call fragment, and the turn goes on with the next chunk.
C30_ChunkWithoutChoices ==
    [][(pc = "stream" /\ stream # <<>> /\ stream' = Tail(stream)
          /\ WithoutChoices(Head(stream)))
       => /\ pc' = "stream"
          /\ out' = out
          /\ full_content' = full_content
          /\ tool_calls_chunks' = tool_calls_chunks]_vars

(***************************************************************************)
(* Claims about the usage of a streaming call (SpecSSE)                    *)
(***************************************************************************)
\* The usage fields of the chunks the lines carry, in order.
UsageFields(lines) ==
    LET objs == SelectSeq(ObjectsOf(lines), LAMBDA o : "usage" \in DOMAIN o)
    IN [i \in 1..Len(objs) |-> objs[i]["usage"]]

\* The count k of the last usage field, zero when there is none.
LastCount(fields, k) == IF fields = <<>> THEN 0 ELSE fields[Len(fields)][k]

\* The count k of the last usage field in which it is positive, zero when
\* there is none.
LastPositiveCount(fields, k) ==
    LET at == { i \in 1..Len(fields) : fields[i][k] > 0 }
    IN IF at = {} THEN 0
       ELSE fields[CHOOSE i \in at : \A j \in at : j <= i][k]

Recording == sse_fn \in {"call_streaming", "_call_llm_stream"}

\* C22 as stated: when the stream of a streaming call has ended, exactly one
\* usage entry is recorded, and it holds the counts of the last usage field
\* seen (zero when none was seen), however many chunks carried one.
C22_LastUsageFieldRecorded ==
    (sse_pc = "ended" /\ Recording) =>
        usage_history =
           <<StreamTotals(LastCount(UsageFields(sse_seen), "prompt_tokens"),
                          LastCount(UsageFields(sse_seen), "completion_tokens"))>>

\* C22, amended: nothing is recorded while the stream runs and exactly one
\* usage entry when it has ended; the counts of the usage fields are never
\* summed; AgentEngine._call_llm_stream records the counts of the last usage
\* field seen, LLMClient.call_streaming records for each count the last
\* value seen that was positive (zero when none was).
C22_UsageOverwritten ==
    /\ sse_pc # "ended" => usage_history = <<>>
    /\ (sse_pc = "ended" /\ ~Recording) => usage_history = <<>>
    /\ (sse_pc = "ended" /\ sse_fn = "_call_llm_stream") =>
          usage_history =
             <<StreamTotals(LastCount(UsageFields(sse_seen), "prompt_tokens"),
                            LastCount(UsageFields(sse_seen), "completion_tokens"))>>
    /\ (sse_pc = "ended" /\ sse_fn = "call_streaming") =>
          usage_history =
             <<StreamTotals(LastPositiveCount(UsageFields(sse_seen), "prompt_tokens"),
                            LastPositiveCount(UsageFields(sse_seen), "completion_tokens"))>>

\* call_streaming has ended on a stream with two usage fields, the counts
\* of the second below those of the first.
C22_Witness ==
    /\ sse_pc = "ended"
    /\ sse_fn = "call_streaming"
    /\ UsageFields(sse_seen) =
          <<[prompt_tokens |-> 1, completion_tokens |-> 1],
            [prompt_tokens |-> 1, completion_tokens |-> 0]>>
    /\ total_calls = 1
    /\ total_input_tokens = 1
    /\ total_output_tokens = 1

\* ---- C21 ---------------------------------------------------------------
\* The call of a registered tool whose arguments are not parsable JSON, do
\* not decode to an object of the keyword arguments the tool takes, or whose
\* body raises.
FailingCall(entry) ==
    /\ entry.registered
    /\ \/ ~JsonLoads(entry.args).ok
       \/ ~JsonLoads(entry.args).object
       \/ JsonLoads(entry.args).keys # ToolParams(entry.name)
       \/ entry.name = "boom"

ErrorPrefix(name) == "Error executing tool " \o name \o ": "

\* C21: in the agent loop, a call_tool of a registered tool never raises;
\* when the arguments are not parsable JSON, are not the keyword arguments
\* of the tool, or the tool body raises, call_tool returns "Error executing
\* tool <name>: " followed by the exception message, the loop appends that
\* string as the tool-role message of the call, and goes on with the turn's
\* remaining tool calls and the next model turn instead of ending.
C21_ToolErrorsAreResults ==
    [][Len(call_log') > Len(call_log) =>
         LET entry == call_log'[Len(call_log')]
             call == turn_tool_calls[tc_pos]
         IN entry.registered =>
              /\ ~entry.raised
              /\ FailingCall(entry) =>
                   /\ StartsWith(entry.result, ErrorPrefix(entry.name))
                   /\ Len(entry.result) > Len(ErrorPrefix(entry.name))
                   /\ messages'[Len(messages')] =
                        [role |-> "tool", tool_call_id |-> call.id,
                         name |-> entry.name, content |-> entry.result]
                   /\ pc' = "tools"]_vars

\* A second model turn began after a failing call was answered with its
\* error string.
C21_Witness ==
    /\ Len(turn_scripts) = 2
    /\ turn_scripts[1] \in {"bad_json", "bad_kwargs", "boom"}
    /\ \E i \in 1..Len(call_log) :
          /\ FailingCall(call_log[i])
          /\ StartsWith(call_log[i].result, ErrorPrefix(call_log[i].name))
    /\ \E i \in 1..Len(messages) :
          /\ messages[i].role = "tool"
          /\ StartsWith(messages[i].content, "Error executing tool ")

\* ---- C28 ---------------------------------------------------------------
\* C28: an engine constructed with the tool list T puts into a request body
\* only the definitions of tools named in T, and every tool call it passes
\* to call_tool names a tool of T; with T empty nothing is advertised and no
\* tool is called.
C28_OnlyListedTools ==
    /\ advertised \subseteq self_tools
    /\ \A i \in 1..Len(call_log) : call_log[i].name \in self_tools

\* ---- C29 ---------------------------------------------------------------
\* The tool-role messages after position i that answer the call with this id.
AnswersAfter(history, i, id) ==
    {j \in (i + 1)..Len(history) :
        history[j].role = "tool" /\ history[j].tool_call_id = id}

\* Every tool call of an assistant message has exactly one answer after it.
EveryCallAnswered(history) ==
    \A i \in 1..Len(history) :
       (history[i].role = "assistant" /\ "tool_calls" \in DOMAIN history[i]) =>
          \A k \in 1..Len(history[i].tool_calls) :
             Cardinality(AnswersAfter(history, i, history[i].tool_calls[k].id)) = 1

\* C29: whenever a provider call is issued, every tool call listed in an
\* assistant message of the history sent has exactly one tool-role message
\* with its id after it, also in a run_stream that follows one the caller
\* left mid-turn or one that ended because the confirmation callback raised.
C29_HistoryWellFormed ==
    [][llm_stream_calls' > llm_stream_calls => EveryCallAnswered(messages')]_vars

\* ---- C27 ---------------------------------------------------------------
\* What the loop body of run_stream accumulates from the chunks of one
\* response read once from its start to its end.
RECURSIVE ReadOnce(_, _)
ReadOnce(acc, chunks) ==
    IF chunks = <<>> THEN acc
    ELSE LET delta == DeltaIn(Head(chunks)).delta
         IN ReadOnce([content |-> IF Has(delta, "content")
                                  THEN acc.content \o delta["content"]
                                  ELSE acc.content,
                      calls |-> EngineAddFragments(acc.calls, ToolCallsDelta(delta))],
                     Tail(chunks))

\* C27: the chunks a streaming call delivers come from a single attempt:
\* when the turn's stream has ended, the content and the tool-call fragments
\* the consumer has accumulated are those of the response read once, also
\* when a transport error after some chunks made _call_llm_stream retry.
C27_ChunksOfOneAttempt ==
    [][(pc = "stream" /\ stream = <<>> /\ pc' \in {"tools", "done"}) =>
         LET once == ReadOnce([content |-> "", calls |-> <<>>],
                              TurnScript(turn_scripts[Len(turn_scripts)],
                                         llm_stream_calls))
         IN /\ full_content = once.content
            /\ tool_calls_chunks = once.calls]_vars

=============================================================================
